---- MODULE Spec2Model ----
(***************************************************************************)
(* A model of hput: a web server programmed over HTTP PUT.                 *)
(*                                                                         *)
(*   - the three Saver backends (discsaver on bbolt, mapsaver on a global  *)
(*     Go map, s3saver on an S3 bucket),                                   *)
(*   - Service.Put / Service.Run on top of a Saver,                        *)
(*   - Httpserver.handle in front of the Service,                          *)
(*   - Javascript.Run (v0.1) with its per-run isolate, context and         *)
(*     event loop.                                                         *)
(*                                                                         *)
(* Strings are sequences of runs [ch, n] (n copies of the code unit ch),   *)
(* so that the 200-byte inspection window of Service.Put keeps its real    *)
(* width.  Paths and remote addresses are plain sequences of characters.   *)
(***************************************************************************)
EXTENDS Integers, Sequences, FiniteSets, TLC

VARIABLES
    backend,    \* which Saver main() wired in: "disc", "map" or "s3"
    db,         \* discsaver: bbolt bucket "hput", key -> stored bytes (<<>> = no key)
    writer,     \* discsaver: holder of bbolt's single writer lock (0 = free)
    tx,         \* discsaver: the open update transaction's pending write
    texts,      \* mapsaver: the package-level map `texts`
    hashWriting,\* mapsaver: Go runtime's "a write to this map is in progress" flag
    crashed,    \* the Go runtime threw a fatal error (concurrent map access)
    bucket,     \* s3saver: the S3 bucket, key -> object
    proc,       \* one record per request goroutine: its position and locals
    hist,       \* history: per path, the kind and payload last written
    freshCount, \* history: per path, how many Saves reported Overwrote = false
    pre,        \* whether an earlier run of the server left a store behind
    nonLocal,   \* Httpserver.NonLocal, the -nonlocal flag
    locked,     \* Httpserver.Locked, the -locked flag
    made,       \* javascript: how many isolates v8.NewIsolate has returned
    execs,      \* javascript: per Javascript.Run call, its position and its objects
    globals,    \* javascript: per context, the globals scripts have assigned
    timers,     \* javascript: per event loop, EventLoop.timers
    nextID,     \* javascript: per event loop, EventLoop.nextID
    seen,       \* history: <<e, c>> when execution e read a global that c assigned
    fired,      \* history: <<e, c>> when e's Drain called a callback that c registered
    clock,      \* time.Now(), in ticks
    loop,       \* one Javascript.Run call in time: its position, deadlines and EventLoop
    calls       \* history: the callbacks Drain has called, in order

vars == <<backend, db, writer, tx, texts, hashWriting, crashed, bucket,
          proc, hist, freshCount, pre, nonLocal, locked,
          made, execs, globals, timers, nextID, seen, fired, clock, loop, calls>>

\* The state of the Javascript interpreter.
jsVars == <<made, execs, globals, timers, nextID, seen, fired>>

\* The clock and the execution followed in time.
timeVars == <<clock, loop, calls>>

\* What no request changes: the wiring and the flags.
config == <<backend, pre, nonLocal, locked>>

----------------------------------------------------------------------------
(* Bounds *)

NumProcs == 2

Procs == 1..NumProcs

----------------------------------------------------------------------------
(* Strings *)

\* Code units: "a" an ASCII letter; "\\" a backslash (ASCII, escaped by JSON,
\* never valid in a script over this alphabet); "e2" a two-byte UTF-8
\* character; "uFFFD" the three-byte replacement character; "xFF" a byte
\* that is not valid UTF-8.
Chars == {"a", "\\", "e2", "uFFFD", "xFF"}

Str(c, n) == <<[ch |-> c, n |-> n]>>

EmptyStr == <<>>

\* The payloads the callers of a Saver pass in.
Payloads == {EmptyStr, Str("a", 1), Str("xFF", 1)}

Kinds == {"Text", "Javascript", "Binary"}

\* Paths: sequences of characters.
PathA == <<"/", "a">>
PathEmpty == <<>>

\* The paths the callers of a Saver pass in: /a, and the empty path of a
\* request URL that has none.
SaverPaths == {PathA, PathEmpty}

\* Request paths: /a; /DuMP and /a/logs, which end in a reserved suffix;
\* /dumps, which does not.
PathDump == <<"/", "D", "u", "M", "P">>
PathLogs == <<"/", "a", "/", "l", "o", "g", "s">>
PathDumps == <<"/", "d", "u", "m", "p", "s">>

\* /a/dump asks for the export of what is stored under /a.
PathADump == <<"/", "a", "/", "d", "u", "m", "p">>

HttpPaths == {PathA, PathDump, PathLogs, PathDumps, PathADump}

AllPaths == SaverPaths \cup HttpPaths

----------------------------------------------------------------------------
(* hput.Runnable and hput.PutResult *)

Runnable(p, t, s, b) == [Path |-> p, Type |-> t, Text |-> s, Binary |-> b]

EmptyRunnable == Runnable(<<>>, "", EmptyStr, EmptyStr)

\* What a Save wrote, as the caller passed it.
Saved(k, v) == [kind |-> k, payload |-> v]

NoSave == Saved("", EmptyStr)

\* The payload field a consumer of kind t reads.
PayloadOf(r) == IF r.Type = "Binary" THEN r.Binary ELSE r.Text

----------------------------------------------------------------------------
(* encoding/json as discsaver uses it *)

\* json.Marshal of a string: a backslash is escaped, a byte that is not
\* valid UTF-8 is written as the escape for U+FFFD, the rest is copied.
EncChar(c) ==
    CASE c = "\\"  -> "\\\\"
      [] c = "xFF" -> "\\ufffd"
      [] OTHER     -> c

\* json.Unmarshal of a string token.
DecChar(t) ==
    CASE t = "\\\\"    -> "\\"
      [] t = "\\ufffd" -> "uFFFD"
      [] OTHER         -> t

EncString(s) == [i \in 1..Len(s) |-> [ch |-> EncChar(s[i].ch), n |-> s[i].n]]

DecString(e) == [i \in 1..Len(e) |-> [ch |-> DecChar(e[i].ch), n |-> e[i].n]]

\* []byte is written in base64, which is one-to-one on bytes.
EncBytes(b) == [i \in 1..Len(b) |-> [ch |-> <<"b64", b[i].ch>>, n |-> b[i].n]]

DecBytes(e) == [i \in 1..Len(e) |-> [ch |-> e[i].ch[2], n |-> e[i].n]]

\* json.Marshal(hput.Runnable): the four fields in declaration order.
MarshalRunnable(ru) ==
    <<EncString(ru.Path), ru.Type, EncString(ru.Text), EncBytes(ru.Binary)>>

UnmarshalRunnable(doc) ==
    Runnable(DecString(doc[1]), doc[2], DecString(doc[3]), DecBytes(doc[4]))

----------------------------------------------------------------------------
(* Stores *)

NoKey == <<>>

MapEntry(t, v, b) == [ok |-> TRUE, Type |-> t, val |-> v, bytes |-> b]

NoEntry == [ok |-> FALSE, Type |-> "", val |-> EmptyStr, bytes |-> EmptyStr]

S3Object(m, body) == [ok |-> TRUE, input |-> m, body |-> body]

NoObject == [ok |-> FALSE, input |-> "", body |-> EmptyStr]

\* S3Saver.Prefix, the -prefix flag.
S3Prefix == <<"h">>

getKey(path) == S3Prefix \o path

NoTx == [open |-> FALSE, key |-> <<>>, val |-> NoKey]

\* The runnable a Save of kind k and payload v stores.
SaveRunnable(k, v) ==
    IF k = "Binary" THEN Runnable(<<>>, k, EmptyStr, v)
    ELSE Runnable(<<>>, k, v, EmptyStr)

KindOfOp(op) ==
    CASE op = "SaveText"   -> "Text"
      [] op = "SaveCode"   -> "Javascript"
      [] op = "SaveBinary" -> "Binary"
      [] OTHER             -> ""

SaveOps == {"SaveText", "SaveCode", "SaveBinary"}

----------------------------------------------------------------------------
(* Request goroutines *)

\* http.ResponseWriter before anything is written: no status line yet.
NewW == [status |-> 0, out |-> <<>>]

\* PutResult.Message of a result that carries none.
NoMessage == [lit |-> "", arg |-> ""]

\* pc is the goroutine's position and k the position a Saver call returns
\* to.  method .. bodyOK are the request, w the response, svcErr what the
\* Service returned, input and message the PutResult's Input and Message.
\* op .. got are the locals of the Saver call.  pStr .. run are the locals
\* of dumpPath and of the goroutine it starts: the prefix, the position of
\* the sender, what it has still to send and what it returned, the two
\* channels, and the runnable last received.  The rest is history: whether
\* the request reached Service.Put or Service.Run, called a Saver
\* operation, wrote to the store, and what the write replaced; what a read
\* was expected to find; whether a Save started on a fresh path, and beside
\* another call; the Saves and the interpreter calls of the request; what
\* the sender sent, how much of it before each completion signal, and what
\* dumpPath rendered, or the loop of Test_SendRunnables received.
IdleProc ==
    [pc |-> "idle", k |-> "ret",
     method |-> "", remote |-> <<>>, path |-> <<>>, body |-> EmptyStr,
     bodyOK |-> TRUE, w |-> NewW, svcErr |-> "nil", input |-> "",
     message |-> NoMessage,
     op |-> "none", payload |-> EmptyStr,
     overwrote |-> FALSE, exists |-> FALSE, err |-> "nil",
     got |-> EmptyRunnable,
     pStr |-> <<>>, sendPc |-> "none", toSend |-> <<>>, sendErr |-> "nil",
     runnablesChan |-> <<>>, doneChan |-> <<>>,
     dumpedFirst |-> FALSE, run |-> EmptyRunnable,
     reachedPut |-> FALSE, reachedRun |-> FALSE, calledSaver |-> FALSE,
     wrote |-> FALSE, replaced |-> NoSave,
     expect |-> NoSave, wasStored |-> FALSE,
     fresh |-> FALSE, conc |-> FALSE,
     saves |-> <<>>, isCodeCalls |-> <<>>, runCalls |-> <<>>,
     sent |-> <<>>, doneAfter |-> <<>>, rendered |-> <<>>, received |-> <<>>]

Upd(i, r) == proc' = [proc EXCEPT ![i] = r]

\* History kept beside the stores: what the last write to a path wrote.
Wrote(path, k, v) == hist' = [hist EXCEPT ![path] = Saved(k, v)]

\* History: whether a write to path has completed before now.
Stored(path) == hist[path] # NoSave

\* A Saver call returns to its caller: its arguments and scratch locals
\* are gone, its results stay.
Returned(r) == [r EXCEPT !.pc = r.k, !.payload = EmptyStr, !.exists = FALSE]

\* A completed write by r: what it replaced.
Written(r) ==
    [r EXCEPT !.wrote = TRUE, !.replaced = hist[r.path],
              !.wasStored = Stored(r.path)]

\* History: a Save that was called while path was fresh returns with
\* Overwrote = overwrote; those that report false are counted, up to 2.
Reported(r, overwrote) ==
    freshCount' = IF overwrote \/ ~r.fresh THEN freshCount
                  ELSE [freshCount EXCEPT ![r.path] = IF @ < 2 THEN @ + 1 ELSE @]

\* Inside a Saver operation.
SaverPcs == {"disc_update", "disc_tx", "disc_commit", "disc_view",
             "map_check", "map_write", "map_store", "map_get",
             "s3_check", "s3_put", "s3_get"}

InCall(r) == r.pc \in SaverPcs

\* The first position of a Saver call on the wired backend.
SaveEntry == CASE backend = "disc" -> "disc_update"
               [] backend = "map"  -> "map_check"
               [] OTHER            -> "s3_check"

GetEntry == CASE backend = "disc" -> "disc_view"
              [] backend = "map"  -> "map_get"
              [] OTHER            -> "s3_get"

\* Goroutine r enters Saver operation op(v, p) with a fresh result, and
\* will continue at k.
Invoke(r, op, p, v, k) ==
    [r EXCEPT !.pc = IF op = "GetRunnable" THEN GetEntry ELSE SaveEntry,
              !.k = k, !.op = op, !.path = p,
              !.payload = IF op = "GetRunnable" THEN EmptyStr ELSE v,
              !.overwrote = FALSE, !.exists = FALSE, !.err = "nil",
              !.calledSaver = TRUE, !.fresh = ~Stored(p),
              !.saves = IF op = "GetRunnable" THEN @ ELSE Append(@, op)]

\* A caller invokes one Saver operation directly.
SaverCall(i, ops, paths, payloads) ==
    /\ ~crashed
    /\ proc[i].pc \in {"idle", "ret"}
    /\ \E op \in ops, p \in paths, v \in payloads :
          LET overlap == \E j \in Procs \ {i} : InCall(proc[j])
              mine == [Invoke(IdleProc, op, p, v, "ret") EXCEPT !.conc = overlap]
          IN proc' = [j \in Procs |->
                        IF j = i THEN mine
                        ELSE IF InCall(proc[j]) THEN [proc[j] EXCEPT !.conc = TRUE]
                        ELSE proc[j]]
    /\ UNCHANGED <<db, writer, tx, texts, hashWriting, crashed, bucket,
                   hist, freshCount, config, timeVars, jsVars>>

----------------------------------------------------------------------------
(* discsaver: bbolt *)

\* An update that waits for no lock.
DbLockIgnored == TRUE

\* db.Update starts only when no other update transaction is open: bbolt
\* serialises writers on one lock.
DbLockFree == writer = 0

\* b.Get inside the update transaction.
DiscExisting(path) == db[path]

\* A test that takes the missing key for the stored one.
ExistingFoundWhenEmpty(existing) == Len(existing) = 0

\* len(existing) > 0
ExistingFound(existing) == Len(existing) > 0

\* b.Put refuses an empty key (bbolt.ErrKeyRequired).
BoltPutFails(path) == path = <<>>

DiscUpdateBegin(i) ==
    /\ ~crashed
    /\ proc[i].pc = "disc_update"
    /\ DbLockFree
    /\ writer' = i
    /\ tx' = [NoTx EXCEPT !.open = TRUE]
    /\ Upd(i, [proc[i] EXCEPT !.pc = "disc_tx"])
    /\ UNCHANGED <<db, texts, hashWriting, crashed, bucket,
                   hist, freshCount, config, timeVars, jsVars>>

\* The function passed to db.Update: Get, set Overwrote, Put.  A failed
\* Put makes Update roll back and saveRunnable return the error.
DiscTxBody(i) ==
    /\ ~crashed
    /\ proc[i].pc = "disc_tx"
    /\ LET p == proc[i].path
           ow == IF ExistingFound(DiscExisting(p)) THEN TRUE ELSE proc[i].overwrote
           v == MarshalRunnable(SaveRunnable(KindOfOp(proc[i].op), proc[i].payload))
       IN IF BoltPutFails(p)
          THEN /\ writer' = 0
               /\ tx' = NoTx
               /\ Upd(i, Returned([proc[i] EXCEPT !.overwrote = ow,
                                         !.wasStored = Stored(p),
                                         !.err = "error saving text to database"]))
          ELSE /\ writer' = writer
               /\ tx' = [open |-> TRUE, key |-> p, val |-> v]
               /\ Upd(i, [proc[i] EXCEPT !.pc = "disc_commit", !.overwrote = ow])
    /\ UNCHANGED <<db, texts, hashWriting, crashed, bucket,
                   hist, freshCount, config, timeVars, jsVars>>

\* The function returned nil: db.Update commits and releases the lock.
DiscCommit(i) ==
    /\ ~crashed
    /\ proc[i].pc = "disc_commit"
    /\ db' = [db EXCEPT ![tx.key] = tx.val]
    /\ writer' = 0
    /\ tx' = NoTx
    /\ Wrote(proc[i].path, KindOfOp(proc[i].op), proc[i].payload)
    /\ Reported(proc[i], proc[i].overwrote)
    /\ Upd(i, Returned(Written(proc[i])))
    /\ UNCHANGED <<texts, hashWriting, crashed, bucket, config, timeVars, jsVars>>

\* Saver.GetRunnable: one read-only transaction, then json.Unmarshal.
DiscGetResult(path) ==
    LET runnableBytes == db[path]
    IN IF Len(runnableBytes) = 0 THEN EmptyRunnable
       ELSE [UnmarshalRunnable(runnableBytes) EXCEPT !.Path = path]

DiscGetRunnable(i) ==
    /\ ~crashed
    /\ proc[i].pc = "disc_view"
    /\ Upd(i, Returned([proc[i] EXCEPT !.got = DiscGetResult(proc[i].path),
                                       !.expect = hist[proc[i].path]]))
    /\ UNCHANGED <<db, writer, tx, texts, hashWriting, crashed, bucket,
                   hist, freshCount, config, timeVars, jsVars>>

----------------------------------------------------------------------------
(* mapsaver: the unguarded package-level map *)

\* `_, ok := texts[p.Path]`
MapFound(path) == texts[path].ok

\* The entry SaveText / SaveCode / SaveBinary assigns.
MapEntryOf(op, v) ==
    IF op = "SaveBinary" THEN MapEntry("Binary", EmptyStr, v)
    ELSE MapEntry(KindOfOp(op), v, EmptyStr)

\* A map read that overlaps a write: the runtime throws "concurrent map
\* read and map write" when it sees the flag, and reads the old entry when
\* it does not.
MapCheck(i) ==
    /\ ~crashed
    /\ proc[i].pc = "map_check"
    /\ \/ /\ Upd(i, [proc[i] EXCEPT !.pc = "map_write",
                       !.overwrote = IF MapFound(proc[i].path) THEN TRUE ELSE @])
          /\ crashed' = crashed
       \/ /\ hashWriting # {}
          /\ crashed' = TRUE
          /\ proc' = proc
    /\ UNCHANGED <<db, writer, tx, texts, hashWriting, bucket,
                   hist, freshCount, config, timeVars, jsVars>>

\* The assignment texts[p.Path] = ... starts: the runtime throws
\* "concurrent map writes" when it sees another write in progress.
MapWriteBegin(i) ==
    /\ ~crashed
    /\ proc[i].pc = "map_write"
    /\ \/ /\ hashWriting' = hashWriting \cup {i}
          /\ Upd(i, [proc[i] EXCEPT !.pc = "map_store"])
          /\ crashed' = crashed
       \/ /\ hashWriting # {}
          /\ crashed' = TRUE
          /\ UNCHANGED <<hashWriting, proc>>
    /\ UNCHANGED <<db, writer, tx, texts, bucket, hist, freshCount, config, timeVars, jsVars>>

\* The assignment completes and the Save returns nil.
MapWriteEnd(i) ==
    /\ ~crashed
    /\ proc[i].pc = "map_store"
    /\ texts' = [texts EXCEPT ![proc[i].path] = MapEntryOf(proc[i].op, proc[i].payload)]
    /\ hashWriting' = hashWriting \ {i}
    /\ Wrote(proc[i].path, KindOfOp(proc[i].op), proc[i].payload)
    /\ Reported(proc[i], proc[i].overwrote)
    /\ Upd(i, Returned(Written(proc[i])))
    /\ UNCHANGED <<db, writer, tx, crashed, bucket, config, timeVars, jsVars>>

\* MapSaver.GetRunnable: Path is left unset.
MapGetResult(path) ==
    LET r == texts[path]
    IN IF ~r.ok THEN EmptyRunnable
       ELSE Runnable(<<>>, r.Type, r.val, r.bytes)

MapGetRunnable(i) ==
    /\ ~crashed
    /\ proc[i].pc = "map_get"
    /\ \/ /\ Upd(i, Returned([proc[i] EXCEPT !.got = MapGetResult(proc[i].path),
                                             !.expect = hist[proc[i].path]]))
          /\ crashed' = crashed
       \/ /\ hashWriting # {}
          /\ crashed' = TRUE
          /\ proc' = proc
    /\ UNCHANGED <<db, writer, tx, texts, hashWriting, bucket,
                   hist, freshCount, config, timeVars, jsVars>>

----------------------------------------------------------------------------
(* s3saver (v0.1) *)

\* Client.GetObject on the bucket: nil error when the object is there,
\* NoSuchKey when it is not.
S3GetObjectErr(key) == IF bucket[key].ok THEN "nil" ELSE "NoSuchKey"

\* S3Saver.checkExists: exists starts false and is set once GetObject
\* returned a NoSuchKey error.
CheckExists(getErr) == getErr # "nil"

\* checkExists against the bucket; any other GetObject error is returned.
S3CheckExists(i) ==
    /\ ~crashed
    /\ proc[i].pc = "s3_check"
    /\ \/ Upd(i, [proc[i] EXCEPT !.pc = "s3_put",
                     !.exists = CheckExists(S3GetObjectErr(getKey(proc[i].path)))])
       \/ Upd(i, Returned([proc[i] EXCEPT !.err = "failed to check if exists"]))
    /\ UNCHANGED <<db, writer, tx, texts, hashWriting, crashed, bucket,
                   hist, freshCount, config, timeVars, jsVars>>

\* Client.PutObject, then r.Overwrote = exists; a PutObject error is returned.
S3PutObject(i) ==
    /\ ~crashed
    /\ proc[i].pc = "s3_put"
    /\ \/ /\ bucket' = [bucket EXCEPT ![getKey(proc[i].path)] =
                            S3Object(KindOfOp(proc[i].op), proc[i].payload)]
          /\ Wrote(proc[i].path, KindOfOp(proc[i].op), proc[i].payload)
          /\ Reported(proc[i], proc[i].exists)
          /\ Upd(i, Returned([Written(proc[i]) EXCEPT !.overwrote = proc[i].exists]))
       \/ /\ Upd(i, Returned([proc[i] EXCEPT !.err = "failed to put"]))
          /\ UNCHANGED <<bucket, hist, freshCount>>
    /\ UNCHANGED <<db, writer, tx, texts, hashWriting, crashed, config, timeVars, jsVars>>

\* S3Saver.getRunnableFromKey on an object that is there or not.
S3GetResult(key) ==
    LET o == bucket[key]
        path == SubSeq(key, Len(S3Prefix) + 1, Len(key))
    IN IF ~o.ok THEN EmptyRunnable
       ELSE IF o.input \in {"Text", "Javascript"} THEN Runnable(path, o.input, o.body, EmptyStr)
       ELSE IF o.input = "Binary" THEN Runnable(path, o.input, EmptyStr, o.body)
       ELSE EmptyRunnable

S3GetRunnable(i) ==
    /\ ~crashed
    /\ proc[i].pc = "s3_get"
    /\ \/ Upd(i, Returned([proc[i] EXCEPT
                     !.got = S3GetResult(getKey(proc[i].path)),
                     !.expect = hist[proc[i].path]]))
       \/ Upd(i, Returned([proc[i] EXCEPT !.err = "failed access runnable"]))
    /\ UNCHANGED <<db, writer, tx, texts, hashWriting, crashed, bucket,
                   hist, freshCount, config, timeVars, jsVars>>

----------------------------------------------------------------------------
(* Service: classification of a PUT body *)

\* The width of the prefix of the body that Put inspects.
ShortStrLen == 200

\* Bytes of one code unit in UTF-8.
ByteWidth(c) ==
    CASE c = "e2"    -> 2
      [] c = "uFFFD" -> 3
      [] OTHER       -> 1

\* strings.ContainsRune(shortStr, invalidRune) over the runs from k on, the
\* k-th starting at byte off: the replacement character is decoded from a
\* literal U+FFFD, from a byte that is not UTF-8, and from a character that
\* the cut at ShortStrLen bytes leaves incomplete.
RECURSIVE ContainsInvalidRune(_, _, _)
ContainsInvalidRune(s, k, off) ==
    IF k > Len(s) \/ off >= ShortStrLen THEN FALSE
    ELSE LET width == ByteWidth(s[k].ch)
             end == off + s[k].n * width
         IN \/ s[k].ch \in {"uFFFD", "xFF"}
            \/ (end > ShortStrLen /\ (ShortStrLen - off) % width # 0)
            \/ ContainsInvalidRune(s, k + 1, end)

LooksBinary(b) == ContainsInvalidRune(b, 1, 0)

\* Javascript.IsCode: the text compiles.  Over this alphabet a text
\* compiles when it is empty or an identifier: letters only.
IsCode(s) == \A k \in 1..Len(s) : s[k].ch \in {"a", "e2"}

\* The error iso.CompileUnboundScript returns for a text that does not
\* compile: over this alphabet, a character no token starts with.
CompileError(s) == "SyntaxError: Invalid or unexpected token"

\* The second result of IsCode: empty for a script, else the notice that
\* ends in the compile error.
IsCodeMessage(s) ==
    IF IsCode(s) THEN NoMessage
    ELSE [lit |-> "I think this is not javascript, so I'll treat it as text. If this were javascript, the error would be: %v",
          arg |-> CompileError(s)]

\* A chain that asks the interpreter before it looks for the marker.
ClassifyCodeFirst(b) ==
    IF IsCode(b) THEN "Javascript"
    ELSE IF LooksBinary(b) THEN "Binary"
    ELSE "Text"

\* The Input Put chooses for body b.
Classify(b) ==
    IF LooksBinary(b) THEN "Binary"
    ELSE IF ~IsCode(b) THEN "Text"
    ELSE "Javascript"

\* The Message of the PutResult that Put builds for body b.
MessageOf(b) ==
    IF LooksBinary(b)
    THEN [lit |-> "I think this is a binary file, saving it as such", arg |-> ""]
    ELSE IsCodeMessage(b)

\* The texts Put hands to Interpreter.IsCode for body b.
IsCodeCallsOf(b) == IF LooksBinary(b) THEN <<>> ELSE <<b>>

SaveOpOf(input) ==
    CASE input = "Binary" -> "SaveBinary"
      [] input = "Text"   -> "SaveText"
      [] OTHER            -> "SaveCode"

----------------------------------------------------------------------------
(* Service: reserved paths *)

ToLowerChar(c) ==
    CASE c = "D" -> "d"
      [] c = "U" -> "u"
      [] c = "M" -> "m"
      [] c = "P" -> "p"
      [] c = "L" -> "l"
      [] c = "O" -> "o"
      [] c = "G" -> "g"
      [] c = "S" -> "s"
      [] c = "A" -> "a"
      [] OTHER   -> c

ToLower(s) == [k \in 1..Len(s) |-> ToLowerChar(s[k])]

lastN(s, n) ==
    LET idx == Len(s) - n
    IN IF idx < 0 THEN s ELSE SubSeq(s, idx + 1, Len(s))

DumpSuffix == <<"/", "d", "u", "m", "p">>

LogsSuffix == <<"/", "l", "o", "g", "s">>

\* A stricter test than Put's: the suffix compared as written.
PutToDumpAsWritten(path) == lastN(path, Len(DumpSuffix)) = DumpSuffix

\* Put's test `strings.ToLower(lastN(r.URL.Path, 5)) == "/dump"`.
PutToDump(path) == ToLower(lastN(path, Len(DumpSuffix))) = DumpSuffix

PutToLogs(path) == ToLower(lastN(path, Len(LogsSuffix))) = LogsSuffix

\* Run's test for a dump request.
RunIsDump(path) == ToLower(lastN(path, Len(DumpSuffix))) = DumpSuffix

----------------------------------------------------------------------------
(* http.ResponseWriter *)

\* The response body is kept as the sequence of chunks written: lit names
\* the fixed text of the chunk, arg and text are what was formatted into it.
Chunk(lit, arg, text) == [lit |-> lit, arg |-> arg, text |-> text]

Lit(lit) == Chunk(lit, <<>>, EmptyStr)

\* w.Write: the first write sends the header, with status 200 when none
\* was set.
Write(w, chunk) ==
    [status |-> IF w.status = 0 THEN 200 ELSE w.status,
     out |-> Append(w.out, chunk)]

\* w.WriteHeader: ignored once the header is sent.
WriteHeader(w, code) ==
    IF w.status = 0 THEN [w EXCEPT !.status = code] ELSE w

\* Service.respondWithRunnable
respondWithRunnable(run, dumpedFirst, w) ==
    IF run.Type \in {"Text", "Javascript"}
    THEN LET w1 == Write(w, Lit(IF dumpedFirst THEN "xhr = new XMLHttpRequest();"
                                 ELSE "var xhr = new XMLHttpRequest();"))
             w2 == Write(w1, Lit("xhr.withCredentials = true;"))
             w3 == Write(w2, Chunk("xhr.open(PUT, http://localhost%s);", run.Path, EmptyStr))
         IN Write(w3, Chunk("xhr.send(%s);", <<>>, run.Text))
    ELSE IF run.Type = "Binary"
    THEN Write(w, Chunk("// binary at http://localhost%s", run.Path, EmptyStr))
    ELSE w

----------------------------------------------------------------------------
(* Saver.SendRunnables and Service.dumpPath *)

\* The paths a request can store at, in key order.
PathOrder == <<PathA, PathDumps>>

\* A test every key passes.
HasPrefixAny(s, p) == TRUE

\* bytes.HasPrefix / strings.HasPrefix
HasPrefix(s, p) == Len(s) >= Len(p) /\ SubSeq(s, 1, Len(p)) = p

Reverse(s) == [k \in 1..Len(s) |-> s[Len(s) + 1 - k]]

DiscKeysUnder(p) == SelectSeq(PathOrder, LAMBDA key : HasPrefix(key, p) /\ db[key] # NoKey)

MapKeysUnder(p) == SelectSeq(PathOrder, LAMBDA key : HasPrefix(key, p) /\ texts[key].ok)

S3KeysUnder(p) == SelectSeq(PathOrder, LAMBDA key : HasPrefix(key, p) /\ bucket[getKey(key)].ok)

\* The sequences of runnables a SendRunnables(p) that meets no fault puts
\* on the channel: bbolt's cursor and S3's listing go in key order, the
\* range over a Go map in any order.  MapSaver sends no Binary field.
SendRunnables(p) ==
    CASE backend = "disc" ->
           {[j \in 1..Len(DiscKeysUnder(p)) |->
               [UnmarshalRunnable(db[DiscKeysUnder(p)[j]]) EXCEPT !.Path = DiscKeysUnder(p)[j]]]}
      [] backend = "map" ->
           LET sent == [j \in 1..Len(MapKeysUnder(p)) |->
                          Runnable(MapKeysUnder(p)[j], texts[MapKeysUnder(p)[j]].Type,
                                   texts[MapKeysUnder(p)[j]].val, EmptyStr)]
           IN {sent, Reverse(sent)}
      [] OTHER ->
           {[j \in 1..Len(S3KeysUnder(p)) |-> S3GetResult(getKey(S3KeysUnder(p)[j]))]}

\* `pStr := p.Path[:len(p.Path)-5]`
DumpPrefix(path) == SubSeq(path, 1, Len(path) - Len(DumpSuffix))

\* `doneChan := make(chan bool, 1)`
DoneChanCap == 1

\* A send that returns before any receiver has taken the value.
HandedAtOnce(ch) == TRUE

\* A send that never returns.
HandedNever(ch) == FALSE

\* `runnablesChan := make(chan hput.Runnable)`: the channel has no buffer,
\* a send on it returns once the receiver has taken the value.
Handed(ch) == ch = <<>>

----------------------------------------------------------------------------
(* Httpserver.handle *)

\* strings.Split(r.RemoteAddr, ":")[0]
RECURSIVE FirstField(_)
FirstField(s) ==
    IF s = <<>> THEN <<>>
    ELSE IF Head(s) = ":" THEN <<>>
    ELSE <<Head(s)>> \o FirstField(Tail(s))

\* The callers handle lets in when NonLocal is unset.
LocalCaller(caller) ==
    ~(caller # <<"[">> /\ caller # <<"localhost">> /\ caller # <<"127.0.0.1">>)

\* A switch that sends every PUT to put.
RouteUnlocked(method, lck) ==
    CASE method = "OPTIONS" -> "options"
      [] method = "PUT"     -> "put"
      [] OTHER              -> "run"

\* The switch on r.Method.
Route(method, lck) ==
    CASE method = "OPTIONS" -> "options"
      [] method = "PUT"     -> IF lck THEN "run" ELSE "put"
      [] OTHER              -> "run"

Req(m, p, b, ok, ra) ==
    [method |-> m, path |-> p, body |-> b, bodyOK |-> ok, remote |-> ra]

\* A request arrives on goroutine i: the caller check and the routing.
Handle(i, reqs) ==
    /\ ~crashed
    /\ proc[i].pc \in {"idle", "done"}
    /\ \E rq \in reqs :
          LET r == [IdleProc EXCEPT !.method = rq.method, !.remote = rq.remote,
                                    !.path = rq.path, !.body = rq.body,
                                    !.bodyOK = rq.bodyOK]
              to == Route(rq.method, locked)
          IN IF ~nonLocal /\ ~LocalCaller(FirstField(rq.remote))
             THEN Upd(i, [r EXCEPT !.pc = "done",
                            !.w = Write(WriteHeader(NewW, 403),
                                        Lit("This can only be called from local"))])
             ELSE IF to = "options"
             THEN Upd(i, [r EXCEPT !.pc = "done", !.w = WriteHeader(NewW, 200)])
             ELSE IF to = "put"
             THEN Upd(i, [r EXCEPT !.pc = "svc_put", !.reachedPut = TRUE])
             ELSE Upd(i, [r EXCEPT !.pc = "svc_run", !.reachedRun = TRUE])
    /\ UNCHANGED <<db, writer, tx, texts, hashWriting, crashed, bucket,
                   hist, freshCount, config, timeVars, jsVars>>

----------------------------------------------------------------------------
(* Service.Put *)

\* io.ReadAll, the reserved suffixes, then getPathRunnable.
PutBegin(i) ==
    /\ ~crashed
    /\ proc[i].pc = "svc_put"
    /\ LET r == proc[i]
       IN IF ~r.bodyOK
          THEN Upd(i, [r EXCEPT !.pc = "put_ret", !.svcErr = "ErrCannotReadPostPayload"])
          ELSE IF PutToDump(r.path)
          THEN Upd(i, [r EXCEPT !.pc = "put_ret", !.svcErr = "ErrPutToDump"])
          ELSE IF PutToLogs(r.path)
          THEN Upd(i, [r EXCEPT !.pc = "put_ret", !.svcErr = "ErrPutToLogs"])
          ELSE Upd(i, Invoke(r, "GetRunnable", r.path, EmptyStr, "put_got"))
    /\ UNCHANGED <<db, writer, tx, texts, hashWriting, crashed, bucket,
                   hist, freshCount, config, timeVars, jsVars>>

\* getPathRunnable returned nil: GetRunnable failed or found no Type.
NoRunnable(r) == r.err # "nil" \/ r.got.Type = ""

\* getPathRunnable has returned: the replay of what is there, the
\* classification of the body, and the Save.
PutAfterGet(i) ==
    /\ ~crashed
    /\ proc[i].pc = "put_got"
    /\ LET r == proc[i]
           w1 == IF NoRunnable(r) THEN r.w
                 ELSE Write(respondWithRunnable(r.got, FALSE,
                        Write(r.w, Lit("overwriting something, use this Javascript to add it back."))),
                        Lit("\n\n"))
           input == Classify(r.body)
       IN Upd(i, Invoke([r EXCEPT !.w = w1, !.input = input,
                                  !.message = MessageOf(r.body),
                                  !.isCodeCalls = IsCodeCallsOf(r.body)],
                        SaveOpOf(input), r.path, r.body, "put_saved"))
    /\ UNCHANGED <<db, writer, tx, texts, hashWriting, crashed, bucket,
                   hist, freshCount, config, timeVars, jsVars>>

\* The Save has returned: Put returns its result and its error.
PutAfterSave(i) ==
    /\ ~crashed
    /\ proc[i].pc = "put_saved"
    /\ Upd(i, [proc[i] EXCEPT !.pc = "put_ret", !.svcErr = proc[i].err])
    /\ UNCHANGED <<db, writer, tx, texts, hashWriting, crashed, bucket,
                   hist, freshCount, config, timeVars, jsVars>>

\* Httpserver.put after Service.Put: 400 on an error, 202 otherwise.
HttpPut(i) ==
    /\ ~crashed
    /\ proc[i].pc = "put_ret"
    /\ LET r == proc[i]
       IN IF r.svcErr # "nil"
          THEN Upd(i, [r EXCEPT !.pc = "done",
                         !.w = Write(WriteHeader(r.w, 400),
                                     Chunk("Unexpected input: %s", <<r.svcErr>>, EmptyStr))])
          ELSE Upd(i, [r EXCEPT !.pc = "done",
                         !.w = Write(WriteHeader(r.w, 202),
                                     Chunk("Saved input of type: %s", <<r.input>>, EmptyStr))])
    /\ UNCHANGED <<db, writer, tx, texts, hashWriting, crashed, bucket,
                   hist, freshCount, config, timeVars, jsVars>>

----------------------------------------------------------------------------
(* Service.Run *)

\* A dump request is answered by dumpPath, which makes its channels and
\* starts the goroutine that calls SendRunnables; any other request reads
\* the path.
RunBegin(i) ==
    /\ ~crashed
    /\ proc[i].pc = "svc_run"
    /\ LET r == proc[i]
       IN IF RunIsDump(r.path)
          THEN Upd(i, [r EXCEPT !.pc = "dump_start", !.calledSaver = TRUE,
                                !.pStr = DumpPrefix(r.path), !.sendPc = "scan"])
          ELSE Upd(i, Invoke(r, "GetRunnable", r.path, EmptyStr, "run_got"))
    /\ UNCHANGED <<db, writer, tx, texts, hashWriting, crashed, bucket,
                   hist, freshCount, config, timeVars, jsVars>>

\* SendRunnables opens its scan: the read transaction, the range over the
\* map, the listing.
SendScan(i) ==
    /\ ~crashed
    /\ proc[i].sendPc = "scan"
    /\ \E runs \in SendRunnables(proc[i].pStr) :
          Upd(i, [proc[i] EXCEPT !.sendPc = "next", !.toSend = runs])
    /\ UNCHANGED <<db, writer, tx, texts, hashWriting, crashed, bucket,
                   hist, freshCount, config, timeVars, jsVars>>

\* `runnables <- r`: the sender offers the next runnable and blocks.
SendOffer(i) ==
    /\ ~crashed
    /\ proc[i].sendPc = "next"
    /\ proc[i].toSend # <<>>
    /\ Upd(i, [proc[i] EXCEPT !.sendPc = "blocked",
                              !.runnablesChan = Append(@, Head(proc[i].toSend)),
                              !.sent = Append(@, Head(proc[i].toSend)),
                              !.toSend = Tail(@)])
    /\ UNCHANGED <<db, writer, tx, texts, hashWriting, crashed, bucket,
                   hist, freshCount, config, timeVars, jsVars>>

\* The send returns.
SendResume(i) ==
    /\ ~crashed
    /\ proc[i].sendPc = "blocked"
    /\ Handed(proc[i].runnablesChan)
    /\ Upd(i, [proc[i] EXCEPT !.sendPc = "next"])
    /\ UNCHANGED <<db, writer, tx, texts, hashWriting, crashed, bucket,
                   hist, freshCount, config, timeVars, jsVars>>

\* `done <- true` and return nil, nothing being left to send.
SendDone(i) ==
    /\ ~crashed
    /\ proc[i].sendPc = "next"
    /\ proc[i].toSend = <<>>
    /\ Len(proc[i].doneChan) < DoneChanCap
    /\ Upd(i, [proc[i] EXCEPT !.sendPc = "returned",
                              !.doneChan = Append(@, TRUE),
                              !.doneAfter = Append(@, Len(proc[i].sent))])
    /\ UNCHANGED <<db, writer, tx, texts, hashWriting, crashed, bucket,
                   hist, freshCount, config, timeVars, jsVars>>

\* S3Saver: ListObjectsV2 or getRunnableFromKey fails; `done <- true` and
\* the error is returned.
SendFail(i) ==
    /\ ~crashed
    /\ backend = "s3"
    /\ proc[i].sendPc = "next"
    /\ Len(proc[i].doneChan) < DoneChanCap
    /\ Upd(i, [proc[i] EXCEPT !.sendPc = "returned",
                              !.sendErr = "failed to list objects",
                              !.doneChan = Append(@, TRUE),
                              !.doneAfter = Append(@, Len(proc[i].sent))])
    /\ UNCHANGED <<db, writer, tx, texts, hashWriting, crashed, bucket,
                   hist, freshCount, config, timeVars, jsVars>>

\* dumpPath after the go statement: `if err != nil`, a read of the variable
\* the started goroutine assigns when SendRunnables returns, with nothing
\* ordering the two.  Once an error has been assigned the read yields it
\* or nil.  On nil the header is written.
DumpStart(i) ==
    /\ ~crashed
    /\ proc[i].pc = "dump_start"
    /\ \/ Upd(i, [proc[i] EXCEPT !.pc = "dump_select",
                     !.w = Write(@, Lit("//Dumping creation instructions v0.2"))])
       \/ /\ proc[i].sendPc = "returned"
          /\ proc[i].sendErr # "nil"
          /\ Upd(i, [proc[i] EXCEPT !.pc = "run_ret"])
    /\ UNCHANGED <<db, writer, tx, texts, hashWriting, crashed, bucket,
                   hist, freshCount, config, timeVars, jsVars>>

\* select, `case run := <-runnablesChan`
DumpReceive(i) ==
    /\ ~crashed
    /\ proc[i].pc = "dump_select"
    /\ proc[i].runnablesChan # <<>>
    /\ Upd(i, [proc[i] EXCEPT !.pc = "dump_render",
                              !.run = Head(proc[i].runnablesChan),
                              !.runnablesChan = Tail(@)])
    /\ UNCHANGED <<db, writer, tx, texts, hashWriting, crashed, bucket,
                   hist, freshCount, config, timeVars, jsVars>>

\* The body of that case: respondWithRunnable, dumpedFirst = true.
DumpRender(i) ==
    /\ ~crashed
    /\ proc[i].pc = "dump_render"
    /\ Upd(i, [proc[i] EXCEPT !.pc = "dump_select",
                              !.w = respondWithRunnable(proc[i].run, proc[i].dumpedFirst, @),
                              !.dumpedFirst = TRUE,
                              !.rendered = Append(@, proc[i].run),
                              !.run = EmptyRunnable])
    /\ UNCHANGED <<db, writer, tx, texts, hashWriting, crashed, bucket,
                   hist, freshCount, config, timeVars, jsVars>>

\* select, `case <-doneChan`: dumpPath returns, and Run returns nil.
DumpDone(i) ==
    /\ ~crashed
    /\ proc[i].pc = "dump_select"
    /\ proc[i].doneChan # <<>>
    /\ Upd(i, [proc[i] EXCEPT !.pc = "run_ret", !.doneChan = Tail(@)])
    /\ UNCHANGED <<db, writer, tx, texts, hashWriting, crashed, bucket,
                   hist, freshCount, config, timeVars, jsVars>>

----------------------------------------------------------------------------
(* Test_SendRunnables of the disk backend *)

\* `runnablesChan := make(chan hput.Runnable, 1)`
TestChanCap == 1

\* The test makes its two channels and starts the goroutine that calls
\* SendRunnables with the prefix p.
TestStart(i, p) ==
    /\ ~crashed
    /\ proc[i].pc \in {"idle", "ret"}
    /\ Upd(i, [IdleProc EXCEPT !.pc = "test_select", !.pStr = p, !.sendPc = "scan"])
    /\ UNCHANGED <<db, writer, tx, texts, hashWriting, crashed, bucket,
                   hist, freshCount, config, timeVars, jsVars>>

\* The send on the channel of the test returns: the value is taken or
\* the buffer holds it.
TestSendResume(i) ==
    /\ ~crashed
    /\ proc[i].sendPc = "blocked"
    /\ Len(proc[i].runnablesChan) <= TestChanCap
    /\ Upd(i, [proc[i] EXCEPT !.sendPc = "next"])
    /\ UNCHANGED <<db, writer, tx, texts, hashWriting, crashed, bucket,
                   hist, freshCount, config, timeVars, jsVars>>

\* select, `case run := <-runnablesChan` and its body.
TestReceive(i) ==
    /\ ~crashed
    /\ proc[i].pc = "test_select"
    /\ proc[i].runnablesChan # <<>>
    /\ Upd(i, [proc[i] EXCEPT !.received = Append(@, Head(proc[i].runnablesChan)),
                              !.runnablesChan = Tail(@)])
    /\ UNCHANGED <<db, writer, tx, texts, hashWriting, crashed, bucket,
                   hist, freshCount, config, timeVars, jsVars>>

\* select, `case <-doneChan`: the loop ends.
TestDone(i) ==
    /\ ~crashed
    /\ proc[i].pc = "test_select"
    /\ proc[i].doneChan # <<>>
    /\ Upd(i, [proc[i] EXCEPT !.pc = "test_end", !.doneChan = Tail(@)])
    /\ UNCHANGED <<db, writer, tx, texts, hashWriting, crashed, bucket,
                   hist, freshCount, config, timeVars, jsVars>>

\* A test that looks for the runnable only, not into it.
NothingAtMissing(r) == r.got.Type = ""

\* `runnable == nil || ...`: nothing to run at the path.
NothingAt(r) ==
    \/ r.got.Type = ""
    \/ (r.got.Type # "Binary" /\ r.got.Text = EmptyStr)
    \/ (r.got.Type = "Binary" /\ Len(r.got.Binary) = 0)

\* Interpreter.Run on a stored script: it returns nil after writing what
\* the script returned, or an error.
InterpreterRun(c, w) ==
    {[err |-> "nil", w |-> Write(w, Chunk("%s", <<>>, c))],
     [err |-> "got an error running the script", w |-> w]}

\* getPathRunnable has returned: the switch on the runnable's Type.
RunAfterGet(i) ==
    /\ ~crashed
    /\ proc[i].pc = "run_got"
    /\ LET r == proc[i]
       IN IF r.err # "nil"
          THEN Upd(i, [r EXCEPT !.pc = "run_ret",
                         !.svcErr = "Unexpected error running service at path"])
          ELSE IF NothingAt(r)
          THEN Upd(i, [r EXCEPT !.pc = "run_ret",
                         !.w = Write(WriteHeader(r.w, 400),
                                     Chunk("There is nothing at path: '%s'", r.path, EmptyStr))])
          ELSE IF r.got.Type = "Binary"
          THEN Upd(i, [r EXCEPT !.pc = "run_ret",
                         !.w = Write(WriteHeader(r.w, 200), Chunk("%s", <<>>, r.got.Binary))])
          ELSE IF r.got.Type = "Text"
          THEN Upd(i, [r EXCEPT !.pc = "run_ret",
                         !.w = Write(WriteHeader(r.w, 200), Chunk("%s", <<>>, r.got.Text))])
          ELSE \E res \in InterpreterRun(r.got.Text, r.w) :
                  Upd(i, [r EXCEPT !.pc = "run_ret", !.svcErr = res.err, !.w = res.w,
                                   !.runCalls = Append(@, [c |-> r.got.Text, err |-> res.err])])
    /\ UNCHANGED <<db, writer, tx, texts, hashWriting, crashed, bucket,
                   hist, freshCount, config, timeVars, jsVars>>

\* Httpserver.run after Service.Run: 500 on an error.
HttpRun(i) ==
    /\ ~crashed
    /\ proc[i].pc = "run_ret"
    /\ LET r == proc[i]
       IN IF r.svcErr # "nil"
          THEN Upd(i, [r EXCEPT !.pc = "done",
                         !.w = Write(WriteHeader(r.w, 500), Lit("Error Unexpected error"))])
          ELSE Upd(i, [r EXCEPT !.pc = "done"])
    /\ UNCHANGED <<db, writer, tx, texts, hashWriting, crashed, bucket,
                   hist, freshCount, config, timeVars, jsVars>>

----------------------------------------------------------------------------
(* Javascript.Run (v0.1): isolate, context and event loop *)

\* How many Javascript.Run calls are followed.
MaxRuns == 2

\* How many timers one execution registers.
MaxTimers == 2

\* How many times a script calls response.send.
MaxSends == 1

Execs == 1..MaxRuns

\* The objects there can be: one isolate, context and loop per call.
Objs == 1..MaxRuns

GlobalNames == {"x"}

\* Javascript values by type; name tells apart the values of a type the
\* model follows: the numbers 1 and 1.5, the object x a script builds and
\* the object bound to the global `response`.
Value(type, name) == [type |-> type, name |-> name]

Undefined == Value("undefined", "undefined")

ResObj == Value("object", "response")

ThePromise == Value("promise", "p")

\* The values an expression statement of a script can have.
ScriptValues ==
    {Undefined, Value("null", "null"), Value("object", "x"), ResObj,
     Value("string", "s"), Value("number", "1"), Value("number", "1.5"),
     Value("bigint", "1n"), Value("boolean", "true"), ThePromise}

\* The values a promise is fulfilled with.
PromiseResults == {Value("object", "x"), Undefined}

\* The values a script passes to response.send.
SendValues == {Value("object", "x"), Value("string", "s")}

\* v8.Value.IsObject, IsString, IsInt32, IsBigInt, IsBoolean, IsPromise
IsObject(v) == v.type = "object"
IsString(v) == v.type = "string"
IsInt32(v) == v.type = "number" /\ v.name = "1"
IsBigInt(v) == v.type = "bigint"
IsBoolean(v) == v.type = "boolean"
IsPromise(v) == v.type = "promise"

\* What is written for a value: the bytes of v.MarshalJSON(), or of
\* v.String().
MarshalJSON(v) == Chunk("MarshalJSON", <<v.type, v.name>>, EmptyStr)

String(v) == Chunk("String", <<v.type, v.name>>, EmptyStr)

\* `val.IsString() || val.IsInt32() || val.IsBigInt() || val.IsBoolean()`
IsPrimitive(v) == IsString(v) \/ IsInt32(v) \/ IsBigInt(v) \/ IsBoolean(v)

\* The end of Run: what is written for the final value.
WriteValue(w, v) ==
    IF IsObject(v) THEN Write(w, MarshalJSON(v))
    ELSE IF IsPrimitive(v) THEN Write(w, String(v))
    ELSE w

\* Whether the end of Run writes anything for v.
WritesValue(v) == IsObject(v) \/ IsPrimitive(v)

\* A timer as a script registers it: by setInterval or setTimeout; with a
\* delay of zero, due at once, or with some other delay; and what its
\* callback does: nothing the model follows, a response.send of a string,
\* a computation that outlasts the deadline of the Drain that calls it, or
\* the settling of the promise the script returns.
TimerKind(interval, zero, cb) == [interval |-> interval, zero |-> zero, cb |-> cb]

\* setTimeout(fn, 0) with fn writing to the response.
FnKind == TimerKind(FALSE, TRUE, "write")

\* The timers of scripts that only schedule work.
PlainTimers == {TimerKind(repeat, FALSE, "none") : repeat \in BOOLEAN}

AllTimers ==
    PlainTimers \cup
        {FnKind, TimerKind(FALSE, FALSE, "slow"),
         TimerKind(FALSE, TRUE, "resolve"), TimerKind(FALSE, FALSE, "reject")}

\* A call of response.method with nargs arguments that returned ret.
Call(method, nargs, ret) == [method |-> method, nargs |-> nargs, ret |-> ret]

NoCall == Call("", 0, Undefined)

\* iso .. el are the objects of the call and w its http.ResponseWriter,
\* header the header fields the response is sent with.  last is the value
\* of the last expression statement the script has evaluated, val the
\* local `val` of Run, promise the state of the promise val is and result
\* what it was fulfilled with, elapsed
\* whether the deadline of the Drain in progress is over, err what Run
\* returned.  The rest is history: the arguments of response.send and
\* whether the call was the script's last statement; the timers set by
\* setTimeout(fn, 0) with a writing fn, those of them cleared, and how
\* often each was called; whether the wait for the promise ended on its
\* deadline, and whether Run wrote the final value; whether the isolate and
\* the context of the call are still allocated; and the last call of a
\* method of the response object.
NoExec ==
    [state |-> "new", iso |-> 0, ctx |-> 0, el |-> 0,
     w |-> NewW, header |-> {}, last |-> Undefined, val |-> Undefined,
     promise |-> "none", result |-> Undefined, elapsed |-> FALSE, err |-> "nil",
     sends |-> <<>>, lastWasSend |-> FALSE,
     fns |-> {}, fnCleared |-> {}, fnCalls |-> [id \in 1..MaxTimers |-> 0],
     timedOut |-> FALSE, wroteVal |-> FALSE,
     isoLive |-> FALSE, ctxLive |-> FALSE, call |-> NoCall]

\* A newContext that hands out the objects of the first call again.
newContextShared(n) == [iso |-> 1, ctx |-> 1, el |-> 1]

\* Javascript.newContext after n earlier calls: v8.NewIsolate, v8.NewContext
\* and polyfills.NewEventLoop each return an object no earlier call returned.
newContext(n) == [iso |-> n + 1, ctx |-> n + 1, el |-> n + 1]

Live(e) == execs[e].state \in {"script", "settle", "drain"}

\* `defer ctx.Close()`: the context is freed when Run returns; Run never
\* calls iso.Dispose.
Close(ex) == [ex EXCEPT !.ctxLive = FALSE]

\* Run is entered: newContext, then the request and response objects are
\* attached and the script starts, or attachRequest fails on the body of
\* the request and Run returns its error.
JsRun(e) ==
    /\ execs[e].state = "new"
    /\ made < MaxRuns
    /\ LET c == newContext(made)
           ex == [execs[e] EXCEPT !.iso = c.iso, !.ctx = c.ctx, !.el = c.el,
                                  !.isoLive = TRUE, !.ctxLive = TRUE]
       IN \/ execs' = [execs EXCEPT ![e] = [ex EXCEPT !.state = "script"]]
          \/ execs' = [execs EXCEPT ![e] =
                          Close([ex EXCEPT !.state = "done",
                                           !.err = "could not set the script request object"])]
    /\ made' = made + 1
    /\ UNCHANGED <<db, writer, tx, texts, hashWriting, crashed, bucket, proc,
                   hist, freshCount, config, timeVars, globals, timers, nextID, seen, fired>>

\* The script, or a callback of its, declares a global of its context.
JsSetGlobal(e) ==
    /\ Live(e)
    /\ \E name \in GlobalNames :
          globals' = [globals EXCEPT ![execs[e].ctx] = @ \cup {[name |-> name, by |-> e]}]
    /\ UNCHANGED <<db, writer, tx, texts, hashWriting, crashed, bucket, proc,
                   hist, freshCount, config, timeVars, made, execs, timers, nextID, seen, fired>>

\* The script, or a callback of its, reads the globals of its context.
JsReadGlobals(e) ==
    /\ Live(e)
    /\ globals[execs[e].ctx] # {}
    /\ seen' = seen \cup {<<e, g.by>> : g \in globals[execs[e].ctx]}
    /\ UNCHANGED <<db, writer, tx, texts, hashWriting, crashed, bucket, proc,
                   hist, freshCount, config, timeVars, made, execs, globals, timers, nextID, fired>>

\* The script evaluates an expression statement whose value is v.
JsStatement(e) ==
    /\ execs[e].state = "script"
    /\ \E v \in ScriptValues :
          execs' = [execs EXCEPT ![e].last = v, ![e].lastWasSend = FALSE]
    /\ UNCHANGED <<db, writer, tx, texts, hashWriting, crashed, bucket, proc,
                   hist, freshCount, config, timeVars, made, globals, timers, nextID, seen, fired>>

\* jsonGoFn: Content-Type is added to the header, which is sent with the
\* first write, and the JSON of the argument is written.
JsonGo(x, ex) ==
    [ex EXCEPT !.header = IF ex.w.status = 0
                          THEN @ \cup {<<"Content-Type", "application/json">>} ELSE @,
               !.w = Write(@, MarshalJSON(x))]

\* sendFn: an object goes to jsonGoFn, of anything else the string form
\* is written.
Send(x, ex) ==
    IF IsObject(x) THEN JsonGo(x, ex)
    ELSE [ex EXCEPT !.w = Write(@, String(x))]

\* The script evaluates the statement response.send(x); the call returns
\* the response object.
JsSend(e) ==
    /\ execs[e].state = "script"
    /\ Len(execs[e].sends) < MaxSends
    /\ \E x \in SendValues :
          execs' = [execs EXCEPT ![e] =
                       [Send(x, @) EXCEPT !.sends = Append(@, x), !.last = ResObj,
                                          !.lastWasSend = TRUE]]
    /\ UNCHANGED <<db, writer, tx, texts, hashWriting, crashed, bucket, proc,
                   hist, freshCount, config, timeVars, made, globals, timers, nextID, seen, fired>>

\* The methods of the response object besides send, and the numbers of
\* arguments a script calls them with.
Methods ==
    {"append", "cookie", "json", "location", "redirect", "sendStatus", "set", "status"}

MaxArgs == 3

\* The calls on which a method panics: the tests of len(info.Args()); a
\* third argument of cookie stands for options that are no object.
Panics(method, nargs) ==
    CASE method \in {"append", "cookie"} -> nargs < 2 \/ (method = "cookie" /\ nargs > 2)
      [] method \in {"redirect", "set"} -> nargs < 1 \/ nargs > 2
      [] OTHER -> nargs # 1

\* What a method returns to the script: `return nil` gives undefined.
Returns(method, nargs) ==
    IF method = "location" \/ (method = "set" /\ nargs = 1) THEN Undefined ELSE ResObj

\* What a method does to the response: the arguments are the header k,
\* the value v, the status 201 and the object x.
Effect(method, nargs, ex) ==
    CASE method \in {"append", "set"} ->
           [ex EXCEPT !.header = IF ex.w.status = 0
                                 THEN @ \cup {<<"k", IF nargs = 1 THEN "" ELSE "v">>} ELSE @]
      [] method = "cookie" ->
           [ex EXCEPT !.header = IF ex.w.status = 0 THEN @ \cup {<<"Set-Cookie", "k=v">>} ELSE @]
      [] method = "location" ->
           [ex EXCEPT !.header = IF ex.w.status = 0 THEN @ \cup {<<"Location", "v">>} ELSE @]
      [] method = "json" -> JsonGo(Value("object", "x"), ex)
      [] method = "redirect" ->
           IF nargs = 2
           THEN [ex EXCEPT !.w = Write(WriteHeader(Write(WriteHeader(@, 201), String(Value("string", "v"))),
                                                   302),
                                       String(Value("number", "201")))]
           ELSE [ex EXCEPT !.w = Write(WriteHeader(@, 302), String(Value("string", "v")))]
      [] OTHER -> [ex EXCEPT !.w = WriteHeader(@, 201)]

\* The script evaluates the statement response.method(...).  A panic of
\* the Go callback unwinds Run, whose deferred ctx.Close runs, up to the
\* caller of Run.
JsCall(e) ==
    /\ execs[e].state = "script"
    /\ execs[e].call = NoCall
    /\ \E method \in Methods, nargs \in 0..MaxArgs :
          IF Panics(method, nargs)
          THEN execs' = [execs EXCEPT ![e] =
                            Close([@ EXCEPT !.state = "panicked",
                                            !.call = Call(method, nargs, Undefined)])]
          ELSE execs' = [execs EXCEPT ![e] =
                            [Effect(method, nargs, @) EXCEPT
                                !.call = Call(method, nargs, Returns(method, nargs)),
                                !.last = Returns(method, nargs), !.lastWasSend = FALSE]]
    /\ UNCHANGED <<db, writer, tx, texts, hashWriting, crashed, bucket, proc,
                   hist, freshCount, config, timeVars, made, globals, timers, nextID, seen, fired>>

\* EventLoop.setTimeout / setInterval on the loop injected into the
\* context, called in a declaration `var id = setTimeout(...)`.
JsSetTimer(e, kinds) ==
    /\ Live(e)
    /\ nextID[execs[e].el] < MaxTimers
    /\ \E kind \in kinds :
          LET el == execs[e].el
              id == nextID[el] + 1
          IN /\ nextID' = [nextID EXCEPT ![el] = id]
             /\ timers' = [timers EXCEPT ![el] = @ \cup
                             {[id |-> id, by |-> e, interval |-> kind.interval,
                               zero |-> kind.zero, cb |-> kind.cb]}]
             /\ execs' = [execs EXCEPT ![e].fns = IF kind = FnKind THEN @ \cup {id} ELSE @]
    /\ UNCHANGED <<db, writer, tx, texts, hashWriting, crashed, bucket, proc,
                   hist, freshCount, config, timeVars, made, globals, seen, fired>>

\* EventLoop.clearTimer(id), id being whatever number the script passes.
JsClearTimer(e) ==
    /\ Live(e)
    /\ \E id \in 1..MaxTimers :
          /\ \E t \in timers[execs[e].el] : t.id = id
          /\ timers' = [timers EXCEPT ![execs[e].el] = {t \in @ : t.id # id}]
          /\ execs' = [execs EXCEPT ![e].fnCleared =
                          IF id \in execs[e].fns THEN @ \cup {id} ELSE @]
    /\ UNCHANGED <<db, writer, tx, texts, hashWriting, crashed, bucket, proc,
                   hist, freshCount, config, timeVars, made, globals, nextID, seen, fired>>

\* ctx.RunScript returns an error: the script threw, and Run returns.
JsThrow(e) ==
    /\ execs[e].state = "script"
    /\ execs' = [execs EXCEPT ![e] =
                    Close([@ EXCEPT !.state = "done",
                                    !.err = "got an error running the script"])]
    /\ UNCHANGED <<db, writer, tx, texts, hashWriting, crashed, bucket, proc,
                   hist, freshCount, config, timeVars, made, globals, timers, nextID, seen, fired>>

\* ctx.RunScript has returned the value of the last statement, and the
\* microtasks have run.  A promise that is rejected by now makes Run return
\* an error, one that is fulfilled gives val its result, and for one that
\* is pending Run starts to wait.  Then, and for any other value at once,
\* Run drains its loop.
JsScriptEnd(e) ==
    /\ execs[e].state = "script"
    /\ LET v == execs[e].last
       IN IF IsPromise(v)
          THEN \/ execs' = [execs EXCEPT ![e].state = "settle", ![e].val = v,
                                         ![e].promise = "pending"]
               \/ execs' = [execs EXCEPT ![e] =
                               Close([@ EXCEPT !.state = "done", !.val = v,
                                               !.promise = "rejected",
                                               !.err = "script promise rejected"])]
               \/ \E res \in PromiseResults :
                     execs' = [execs EXCEPT ![e].state = "drain", ![e].val = res,
                                            ![e].promise = "fulfilled", ![e].result = res]
          ELSE execs' = [execs EXCEPT ![e].state = "drain", ![e].val = v]
    /\ UNCHANGED <<db, writer, tx, texts, hashWriting, crashed, bucket, proc,
                   hist, freshCount, config, timeVars, made, globals, timers, nextID, seen, fired>>

\* The timer Drain takes next is the one with the earliest deadline: of
\* the timers set with delay zero the one set first; a timer set with
\* another delay whenever that delay makes it the earliest.
Earliest(t, pending) ==
    t.zero => ~\E u \in pending : u.zero /\ u.id < t.id

\* What the callback of timer t does to the execution that calls it.
Callback(t, ex) ==
    CASE t.cb = "write" ->
           [Send(Value("string", ToString(t.id)), ex) EXCEPT
               !.fnCalls[t.id] = IF @ < 2 THEN @ + 1 ELSE @]
      [] t.cb = "slow" -> [ex EXCEPT !.elapsed = TRUE]
      [] t.cb = "resolve" ->
           IF ex.promise = "pending"
           THEN [ex EXCEPT !.promise = "fulfilled", !.result = Value("object", "x")]
           ELSE ex
      [] t.cb = "reject" ->
           IF ex.promise = "pending" THEN [ex EXCEPT !.promise = "rejected"] ELSE ex
      [] OTHER -> ex

\* One round of EventLoop.Drain, the deadline not being over: the
\* earliest timer is due and its callback is called; a timeout is deleted,
\* an interval is kept.
JsDrainFire(e) ==
    /\ execs[e].state \in {"settle", "drain"}
    /\ ~execs[e].elapsed
    /\ \E t \in timers[execs[e].el] :
          /\ Earliest(t, timers[execs[e].el])
          /\ fired' = fired \cup {<<e, t.by>>}
          /\ timers' = [timers EXCEPT ![execs[e].el] = IF t.interval THEN @ ELSE @ \ {t}]
          /\ execs' = [execs EXCEPT ![e] = Callback(t, @)]
    /\ UNCHANGED <<db, writer, tx, texts, hashWriting, crashed, bucket, proc,
                   hist, freshCount, config, timeVars, made, globals, nextID, seen>>

\* A Drain that returns whatever timers are due.
DrainReturnsAtOnce(e) == TRUE

\* Drain returns: no timer is left, or the deadline is over, or the
\* earliest timer is due after the deadline, which no timer set with delay
\* zero is.
DrainReturns(e) ==
    \/ timers[execs[e].el] = {}
    \/ execs[e].elapsed
    \/ ~\E t \in timers[execs[e].el] : t.zero

\* A Run that keeps the promise as its value.
ResultKept(ex) == ex.val

\* `val = promise.Result()` of a fulfilled promise
Result(ex) == ex.result

\* The wait for the promise ends, Drain having returned: the promise is
\* settled, or it is pending and the deadline is over.  A rejected promise
\* makes Run return an error.  Else val becomes promise.Result(); of a
\* pending promise v8 checks that it is settled and ends the process when
\* the check fails, or hands back an empty result.  The last Drain starts
\* with a deadline of its own.
JsSettleEnd(e) ==
    /\ execs[e].state = "settle"
    /\ DrainReturns(e)
    /\ LET ex == execs[e]
       IN CASE ex.promise = "rejected" ->
                 execs' = [execs EXCEPT ![e] =
                              Close([@ EXCEPT !.state = "done",
                                              !.err = "script promise rejected"])]
            [] ex.promise = "fulfilled" ->
                 execs' = [execs EXCEPT ![e].state = "drain", ![e].val = Result(ex),
                                        ![e].elapsed = FALSE]
            [] OTHER ->
                 \/ execs' = [execs EXCEPT ![e].state = "aborted", ![e].timedOut = TRUE]
                 \/ execs' = [execs EXCEPT ![e].state = "drain", ![e].val = Undefined,
                                           ![e].timedOut = TRUE, ![e].elapsed = FALSE]
    /\ UNCHANGED <<db, writer, tx, texts, hashWriting, crashed, bucket, proc,
                   hist, freshCount, config, timeVars, made, globals, timers, nextID, seen, fired>>

\* The last Drain returns and Run writes the final value and returns nil:
\* the deferred ctx.Close.
JsReturn(e) ==
    /\ execs[e].state = "drain"
    /\ DrainReturns(e)
    /\ execs' = [execs EXCEPT ![e] =
                    Close([@ EXCEPT !.state = "done",
                                    !.w = WriteValue(@, execs[e].val),
                                    !.wroteVal = WritesValue(execs[e].val)])]
    /\ UNCHANGED <<db, writer, tx, texts, hashWriting, crashed, bucket, proc,
                   hist, freshCount, config, timeVars, made, globals, timers, nextID, seen, fired>>

\* Executions of scripts that set globals and plain timers.
JsStep(e) ==
    \/ JsRun(e)
    \/ JsSetGlobal(e)
    \/ JsReadGlobals(e)
    \/ JsSetTimer(e, PlainTimers)
    \/ JsClearTimer(e)
    \/ JsScriptEnd(e)
    \/ JsDrainFire(e)
    \/ JsReturn(e)

\* One execution of a script that writes, sets timers of every kind and
\* may return a promise.
RunStep(e) ==
    \/ JsRun(e)
    \/ JsStatement(e)
    \/ JsSend(e)
    \/ JsSetTimer(e, AllTimers)
    \/ JsClearTimer(e)
    \/ JsThrow(e)
    \/ JsScriptEnd(e)
    \/ JsDrainFire(e)
    \/ JsSettleEnd(e)
    \/ JsReturn(e)

\* One execution of a script that calls a method of the response object.
CallStep(e) ==
    \/ JsRun(e)
    \/ JsStatement(e)
    \/ JsCall(e)
    \/ JsThrow(e)
    \/ JsScriptEnd(e)
    \/ JsSettleEnd(e)
    \/ JsReturn(e)

----------------------------------------------------------------------------
(* Javascript.Run in time: fetch, EventLoop.Drain and the deadlines *)

\* The clock stops at MaxTime, and Drain calls MaxFires callbacks.
MaxTime == 4

MaxFires == 2

\* `30 * time.Second`, in ticks.
Limit == 2

\* `interval := 10 * time.Millisecond`, in ticks.
DefaultInterval == 1

\* The second argument of setTimeout and of setInterval.
Delays == 0..1

\* What a script passes to fetch: nothing; an argument whose fields throw
\* when read; a url that is no string; a url net/http cannot parse; the
\* address of a host that refuses the connection, of one that never
\* answers, of one whose answer breaks off in the body, of one that
\* answers.
FetchInputs == {"none", "throws", "notString", "badURL", "refused", "silent", "badBody", "ok"}

\* The promise a fetch call returns when it returns: resolver.Reject with a
\* message on each fault, resolver.Resolve with the response object.
Settled(state, value) == [state |-> state, value |-> value]

NotFetched == Settled("", "")

\* A fetch whose transport error is not told to the script.
FetchForgetsTransport(input) ==
    IF input \in {"refused", "silent"} THEN Settled("pending", "")
    ELSE Settled("rejected", "fetch")

Fetch(input) ==
    CASE input = "none" -> Settled("rejected", "fetch requires at least 1 argument")
      [] input = "throws" -> Settled("rejected", "fetch: extracting args: %s")
      [] input = "notString" -> Settled("rejected", "fetch: parsing args: %s")
      [] input \in {"badURL", "refused", "silent"} -> Settled("rejected", "fetch: %s")
      [] input = "badBody" -> Settled("rejected", "fetch: reading body: %s")
      [] OTHER -> Settled("fulfilled", "response")

\* Whether http.DefaultClient.Do returns at once for the input: a client
\* without Timeout and a request without context wait for a host that
\* does not answer as long as the transport does.
Blocks(input) == input = "silent"

\* timerEntry
Timer(id, deadline, interval) == [id |-> id, deadline |-> deadline, interval |-> interval]

\* pc is where Run is: in the script, in the wait for its promise, in
\* Drain, in a callback that Drain called, in http.DefaultClient.Do, or
\* over.  timers and nextID are the EventLoop; deadline is the deadline of
\* the Drain in progress, waitDeadline the `deadline` of the wait for the
\* promise (-1 before there is one), final tells the last Drain from those
\* of the wait.  promise is the state of the promise the script returned,
\* which awaits the script's fetch.  The rest is history: the ids passed
\* to clearTimer while pending and the id of the last call of clearTimer,
\* the input and the result of the last fetch and whether the promise of
\* the script awaited it, whether Run was in fetch after waitDeadline,
\* when Run returned and what.
NewLoop ==
    [pc |-> "script", timers |-> {}, nextID |-> 0, deadline |-> 0, waitDeadline |-> -1,
     final |-> FALSE, promise |-> "none", cur |-> 0, back |-> "script",
     cleared |-> {}, lastClear |-> 0, input |-> "", awaited |-> FALSE,
     fetched |-> NotFetched,
     late |-> FALSE, timedOut |-> FALSE, endAt |-> -1, err |-> "nil"]

\* Javascript code runs: the script, or a callback.
InScript == loop.pc \in {"script", "callback"}

\* Time passes while the script or a callback computes, and while the wait
\* for the promise goes round.
Tick ==
    /\ loop.pc \in {"script", "callback", "wait"}
    /\ clock < MaxTime
    /\ clock' = clock + 1
    /\ UNCHANGED <<db, writer, tx, texts, hashWriting, crashed, bucket, proc,
                   hist, freshCount, config, jsVars, loop, calls>>

\* EventLoop.setTimeout
setTimeout(delay) ==
    /\ InScript
    /\ loop.nextID < MaxTimers
    /\ loop' = [loop EXCEPT !.nextID = @ + 1,
                            !.timers = @ \cup {Timer(loop.nextID + 1, clock + delay, 0)}]
    /\ UNCHANGED <<db, writer, tx, texts, hashWriting, crashed, bucket, proc,
                   hist, freshCount, config, jsVars, clock, calls>>

\* The interval InjectTimers passes on for the argument of a script.
IntervalOf(arg) == IF arg > 0 THEN arg ELSE DefaultInterval

\* EventLoop.setInterval
setInterval(arg) ==
    /\ InScript
    /\ loop.nextID < MaxTimers
    /\ loop' = [loop EXCEPT !.nextID = @ + 1,
                            !.timers = @ \cup {Timer(loop.nextID + 1, clock + IntervalOf(arg),
                                                     IntervalOf(arg))}]
    /\ UNCHANGED <<db, writer, tx, texts, hashWriting, crashed, bucket, proc,
                   hist, freshCount, config, jsVars, clock, calls>>

\* A clearTimer that leaves the timer in the map.
Kept(ts, id) == ts

\* `delete(el.timers, id)`
Deleted(ts, id) == {t \in ts : t.id # id}

\* EventLoop.clearTimer, with any id: of a pending timer, of one that is
\* gone, of none.
clearTimer(id) ==
    /\ InScript
    /\ loop.lastClear # id
    /\ loop' = [loop EXCEPT !.timers = Deleted(@, id),
                            !.cleared = IF \E t \in loop.timers : t.id = id
                                        THEN @ \cup {id} ELSE @,
                            !.lastClear = id]
    /\ UNCHANGED <<db, writer, tx, texts, hashWriting, crashed, bucket, proc,
                   hist, freshCount, config, jsVars, clock, calls>>

\* The promise of the script settles as the fetch it awaits does; a fetch
\* made in the last Drain is awaited by nothing Run looks at.
Awaited(l, res) ==
    IF ~l.final /\ l.promise \in {"none", "pending"} THEN res.state ELSE l.promise

\* The script or a callback calls fetch, once: it returns a settled
\* promise, or stays in http.DefaultClient.Do.
FetchCall ==
    /\ InScript
    /\ loop.input = ""
    /\ \E input \in FetchInputs :
          IF Blocks(input)
          THEN loop' = [loop EXCEPT !.pc = "fetch", !.back = loop.pc, !.input = input,
                                    !.awaited = ~loop.final]
          ELSE loop' = [loop EXCEPT !.input = input, !.awaited = ~loop.final,
                                    !.fetched = Fetch(input),
                                    !.promise = Awaited(loop, Fetch(input))]
    /\ UNCHANGED <<db, writer, tx, texts, hashWriting, crashed, bucket, proc,
                   hist, freshCount, config, jsVars, clock, calls>>

\* Time passes in http.DefaultClient.Do.
FetchWait ==
    /\ loop.pc = "fetch"
    /\ clock < MaxTime
    /\ clock' = clock + 1
    /\ loop' = [loop EXCEPT !.late = @ \/ (loop.waitDeadline >= 0 /\ clock + 1 > loop.waitDeadline)]
    /\ UNCHANGED <<db, writer, tx, texts, hashWriting, crashed, bucket, proc,
                   hist, freshCount, config, jsVars, calls>>

\* The transport gives up and fetch returns.
FetchReturn ==
    /\ loop.pc = "fetch"
    /\ loop' = [loop EXCEPT !.pc = loop.back, !.fetched = Fetch(loop.input),
                            !.promise = Awaited(loop, Fetch(loop.input))]
    /\ UNCHANGED <<db, writer, tx, texts, hashWriting, crashed, bucket, proc,
                   hist, freshCount, config, jsVars, clock, calls>>

\* Run returns err.
Ended(l, err) == [l EXCEPT !.pc = "done", !.err = err, !.endAt = clock]

\* The last Drain begins: `el.Drain(iso, ctx, time.Now().Add(30*time.Second))`
LastDrain(l) == [l EXCEPT !.pc = "drain", !.final = TRUE, !.deadline = clock + Limit]

\* ctx.RunScript has returned and the microtasks have run.  The script
\* returned a promise when it awaits a fetch, or else a value or a promise
\* that nothing settles.
ScriptEnd ==
    /\ loop.pc = "script"
    /\ \/ /\ loop.promise = "rejected"
          /\ loop' = Ended(loop, "script promise rejected")
       \/ /\ loop.promise \in {"none", "fulfilled"}
          /\ loop' = LastDrain(loop)
       \/ /\ loop.promise = "none"
          /\ loop' = [loop EXCEPT !.pc = "wait", !.promise = "pending",
                                  !.waitDeadline = clock + Limit]
    /\ UNCHANGED <<db, writer, tx, texts, hashWriting, crashed, bucket, proc,
                   hist, freshCount, config, jsVars, clock, calls>>

\* `for promise.State() == v8.Pending && time.Now().Before(deadline)`: one
\* more Drain.
WaitDrain ==
    /\ loop.pc = "wait"
    /\ loop.promise = "pending"
    /\ clock < loop.waitDeadline
    /\ loop' = [loop EXCEPT !.pc = "drain", !.final = FALSE, !.deadline = loop.waitDeadline]
    /\ UNCHANGED <<db, writer, tx, texts, hashWriting, crashed, bucket, proc,
                   hist, freshCount, config, jsVars, clock, calls>>

\* The wait is over: a rejected promise makes Run return an error; of a
\* pending one promise.Result() ends the process or is empty.
WaitEnd ==
    /\ loop.pc = "wait"
    /\ loop.promise # "pending" \/ clock >= loop.waitDeadline
    /\ CASE loop.promise = "rejected" -> loop' = Ended(loop, "script promise rejected")
         [] loop.promise = "fulfilled" -> loop' = LastDrain(loop)
         [] OTHER -> \/ loop' = [loop EXCEPT !.pc = "aborted", !.timedOut = TRUE]
                     \/ loop' = LastDrain([loop EXCEPT !.timedOut = TRUE])
    /\ UNCHANGED <<db, writer, tx, texts, hashWriting, crashed, bucket, proc,
                   hist, freshCount, config, jsVars, clock, calls>>

\* A choice of any timer.
NextTimerAny(ts) == ts

\* `if next == nil || t.deadline.Before(next.deadline)`: a timer that none
\* has a deadline before.
NextTimer(ts) == {t \in ts : \A u \in ts : ~(u.deadline < t.deadline)}

\* A sleep that returns at once.
SleepNone(t, due) == {t}

\* `time.Sleep(wait)` at time t for a timer due later: the times it can
\* return at, on time or, while the clock runs, a tick late.
Sleep(t, due) == IF due > t THEN {due} \cup {w \in {due + 1} : w <= MaxTime} ELSE {t}

\* A Drain that leaves the timer it calls as it was.
AfterFireKept(ts, next, t) == ts

\* A Drain that deletes every timer it calls.
AfterFireDeleted(ts, next, t) == ts \ {next}

\* `next.deadline = time.Now().Add(next.interval)` or
\* `delete(el.timers, next.id)`
AfterFire(ts, next, t) ==
    IF next.interval > 0
    THEN (ts \ {next}) \cup {Timer(next.id, t + next.interval, next.interval)}
    ELSE ts \ {next}

\* The call of a callback: which timer, when, with which deadline and
\* interval, beside which deadlines of other timers, and whether the
\* timer was cleared before.
Fired(next, at, ts) ==
    [id |-> next.id, at |-> at, due |-> next.deadline, interval |-> next.interval,
     others |-> {u.deadline : u \in ts \ {next}}, cleared |-> next.id \in loop.cleared]

\* One round of Drain that calls a callback: the earliest timer is due or
\* Drain sleeps until it is, and the deadline of Drain is not over then.
DrainFire ==
    /\ loop.pc = "drain"
    /\ Len(calls) < MaxFires
    /\ \E next \in NextTimer(loop.timers) :
          /\ next.deadline > clock => next.deadline <= loop.deadline
          /\ \E wake \in Sleep(clock, next.deadline) :
                /\ wake <= loop.deadline
                /\ clock' = wake
                /\ calls' = Append(calls, Fired(next, wake, loop.timers))
                /\ loop' = [loop EXCEPT !.pc = "callback", !.cur = next.id,
                                        !.timers = AfterFire(@, next, wake)]
    /\ UNCHANGED <<db, writer, tx, texts, hashWriting, crashed, bucket, proc,
                   hist, freshCount, config, jsVars>>

\* The same round of Drain, as often as the timers give and without the
\* history of the calls.
DrainCall ==
    /\ loop.pc = "drain"
    /\ \E next \in NextTimer(loop.timers) :
          /\ next.deadline > clock => next.deadline <= loop.deadline
          /\ \E wake \in Sleep(clock, next.deadline) :
                /\ wake <= loop.deadline
                /\ clock' = wake
                /\ loop' = [loop EXCEPT !.pc = "callback", !.cur = next.id,
                                        !.timers = AfterFire(@, next, wake)]
    /\ UNCHANGED <<db, writer, tx, texts, hashWriting, crashed, bucket, proc,
                   hist, freshCount, config, jsVars, calls>>

\* The callback returns and the microtasks run.
CallbackEnd ==
    /\ loop.pc = "callback"
    /\ loop' = [loop EXCEPT !.pc = "drain", !.cur = 0]
    /\ UNCHANGED <<db, writer, tx, texts, hashWriting, crashed, bucket, proc,
                   hist, freshCount, config, jsVars, clock, calls>>

\* Drain has returned: to the wait, or to the end of Run, which returns
\* nil.
AfterDrain(l) == IF l.final THEN Ended(l, "nil") ELSE [l EXCEPT !.pc = "wait"]

\* Drain returns: no timer is left, or the earliest is due after the
\* deadline, or the deadline is over, before or after the sleep.
DrainReturn ==
    /\ loop.pc = "drain"
    /\ \/ /\ loop.timers = {}
          /\ clock' = clock
       \/ \E next \in NextTimer(loop.timers) :
             \/ /\ next.deadline > clock
                /\ next.deadline > loop.deadline
                /\ clock' = clock
             \/ /\ next.deadline <= loop.deadline \/ next.deadline <= clock
                /\ \E wake \in Sleep(clock, next.deadline) :
                      /\ wake > loop.deadline
                      /\ clock' = wake
    /\ loop' = [AfterDrain(loop) EXCEPT !.endAt = IF loop.final THEN clock' ELSE @]
    /\ UNCHANGED <<db, writer, tx, texts, hashWriting, crashed, bucket, proc,
                   hist, freshCount, config, jsVars, calls>>

\* One execution in time.
LoopStep ==
    \/ Tick
    \/ \E delay \in Delays : setTimeout(delay)
    \/ \E arg \in Delays : setInterval(arg)
    \/ \E id \in 1..MaxTimers : clearTimer(id)
    \/ FetchCall
    \/ FetchWait
    \/ FetchReturn
    \/ ScriptEnd
    \/ WaitDrain
    \/ WaitEnd
    \/ DrainFire
    \/ CallbackEnd
    \/ DrainReturn

----------------------------------------------------------------------------
(* Initial states *)

\* A store left by an earlier run of the server: nothing, or a text at /a.
PreSaved == Saved("Text", Str("a", 1))

Keys == {getKey(p) : p \in AllPaths}

\* The paths stored when the server starts.
Store0 == {p \in AllPaths : pre /\ backend \in {"disc", "s3"} /\ p = PathA}

Db0 ==
    [p \in AllPaths |->
        IF backend = "disc" /\ p \in Store0
        THEN MarshalRunnable(SaveRunnable(PreSaved.kind, PreSaved.payload))
        ELSE NoKey]

Texts0 == [p \in AllPaths |-> NoEntry]

Bucket0 ==
    [key \in Keys |->
        IF backend = "s3" /\ key \in {getKey(p) : p \in Store0}
        THEN S3Object(PreSaved.kind, PreSaved.payload)
        ELSE NoObject]

InitStores ==
    /\ db = Db0
    /\ writer = 0
    /\ tx = NoTx
    /\ texts = Texts0
    /\ hashWriting = {}
    /\ crashed = FALSE
    /\ bucket = Bucket0
    /\ hist = [p \in AllPaths |-> IF p \in Store0 THEN PreSaved ELSE NoSave]
    /\ freshCount = [p \in AllPaths |-> 0]

InitJs ==
    /\ made = 0
    /\ execs = [e \in Execs |-> NoExec]
    /\ globals = [c \in Objs |-> {}]
    /\ timers = [l \in Objs |-> {}]
    /\ nextID = [l \in Objs |-> 0]
    /\ seen = {}
    /\ fired = {}
    /\ clock = 0
    /\ loop = NewLoop
    /\ calls = <<>>

\* main(): the backend the -storage flag names; a map starts empty, a
\* database file or a bucket may hold what an earlier run stored.
InitWiring ==
    /\ backend \in {"disc", "map", "s3"}
    /\ pre \in (IF backend = "map" THEN {FALSE} ELSE BOOLEAN)

InitSaver ==
    /\ InitWiring
    /\ nonLocal = FALSE
    /\ locked = FALSE
    /\ InitStores
    /\ InitJs
    /\ proc = [i \in Procs |-> IdleProc]

Init ==
    /\ InitWiring
    /\ nonLocal \in BOOLEAN
    /\ locked \in BOOLEAN
    /\ InitStores
    /\ InitJs
    /\ proc = [i \in Procs |-> IdleProc]

----------------------------------------------------------------------------
(* Specifications *)

SaverStep(i) ==
    \/ DiscUpdateBegin(i)
    \/ DiscTxBody(i)
    \/ DiscCommit(i)
    \/ DiscGetRunnable(i)
    \/ MapCheck(i)
    \/ MapWriteBegin(i)
    \/ MapWriteEnd(i)
    \/ MapGetRunnable(i)
    \/ S3CheckExists(i)
    \/ S3PutObject(i)
    \/ S3GetRunnable(i)

ServerStep(i) ==
    \/ PutBegin(i)
    \/ PutAfterGet(i)
    \/ PutAfterSave(i)
    \/ HttpPut(i)
    \/ RunBegin(i)
    \/ RunAfterGet(i)
    \/ HttpRun(i)
    \/ SaverStep(i)

\* The steps of dumpPath and of the goroutine it starts.
DumpStep(i) ==
    \/ SendScan(i)
    \/ SendOffer(i)
    \/ SendResume(i)
    \/ SendDone(i)
    \/ SendFail(i)
    \/ DumpStart(i)
    \/ DumpReceive(i)
    \/ DumpRender(i)
    \/ DumpDone(i)

AllOps == SaveOps \cup {"GetRunnable"}

\* One caller at a time: a sequential history of Saver calls.
NextSeq == SaverCall(1, AllOps, SaverPaths, Payloads) \/ SaverStep(1)

SpecSeq == InitSaver /\ [][NextSeq]_vars

\* Callers of the Saver on concurrent goroutines, saving one text to and
\* reading one path.
NextSaver ==
    \E i \in Procs :
        SaverCall(i, {"SaveText", "GetRunnable"}, {PathA}, {Str("a", 1)}) \/ SaverStep(i)

SpecSaver == InitSaver /\ [][NextSaver]_vars

\* Remote addresses as net/http writes them, host and port, cut at the
\* colons: two loopback callers, an IPv4 caller and an IPv6 caller from
\* elsewhere.
AddrLocal4 == <<"127.0.0.1", ":", "4242">>
AddrLocal6 == <<"[", ":", ":", "1", "]", ":", "4242">>
AddrOther4 == <<"10.0.0.1", ":", "4242">>
AddrOther6 == <<"[", ":", ":", "2", "]", ":", "4242">>

RemoteAddrs == {AddrLocal4, AddrLocal6, AddrOther4, AddrOther6}

\* Bodies of PUT requests: empty, a script, a text, a binary, a text
\* whose first byte that is not UTF-8 lies behind the inspected prefix, and
\* a script whose only two-byte character lies across the end of it.
LongText == <<[ch |-> "a", n |-> ShortStrLen], [ch |-> "xFF", n |-> 1]>>

CutText == <<[ch |-> "a", n |-> ShortStrLen - 1], [ch |-> "e2", n |-> 1]>>

Bodies == {EmptyStr, Str("a", 1), Str("\\", 1), Str("xFF", 1), LongText, CutText}

\* The requests a caller at ra sends; a body that cannot be read has no
\* content the server sees.
RequestsFrom(ra) ==
    {Req("PUT", PathA, b, TRUE, ra) : b \in Bodies}
        \cup {Req("PUT", p, Str("a", 1), ok, ra) : p \in {PathDump, PathLogs}, ok \in BOOLEAN}
        \cup {Req("PUT", PathA, EmptyStr, FALSE, ra), Req("PUT", PathDumps, Str("\\", 1), TRUE, ra)}
        \cup {Req("GET", p, EmptyStr, TRUE, ra) : p \in HttpPaths}
        \cup {Req("OPTIONS", PathA, EmptyStr, TRUE, ra)}

Requests == UNION {RequestsFrom(ra) : ra \in RemoteAddrs}

\* The server answering one request at a time.
Next == Handle(1, Requests) \/ ServerStep(1) \/ DumpStep(1)

Spec == Init /\ [][Next]_vars

\* The server with goroutines that run when they can: dumpPath and the
\* goroutine it starts go on while a step of theirs is possible.
SpecDump == Init /\ [][Next]_vars /\ WF_vars(DumpStep(1))

\* Local callers writing to and reading one path on concurrent goroutines.
PutRequests ==
    {Req("PUT", PathA, b, TRUE, AddrLocal4) : b \in {Str("a", 1), Str("\\", 1)}}
        \cup {Req("GET", PathA, EmptyStr, TRUE, AddrLocal4)}

NextPut == \E i \in Procs : Handle(i, PutRequests) \/ ServerStep(i)

SpecPut == InitSaver /\ [][NextPut]_vars

\* Executions of stored scripts on concurrent goroutines.
NextJs == \E e \in Execs : JsStep(e)

\* The interpreter does not depend on the store: one wiring is enough.
InitRuns == InitSaver /\ backend = "map"

SpecJs == InitRuns /\ [][NextJs]_vars

\* One execution, followed from the script to the final value.
NextRun == RunStep(1)

SpecRun == InitRuns /\ [][NextRun]_vars

\* One execution, followed through the calls of the response object.
NextCall == CallStep(1)

SpecCall == InitRuns /\ [][NextCall]_vars

\* One execution, followed in time through fetch and Drain.
NextLoop == LoopStep

SpecLoop == InitRuns /\ [][NextLoop]_vars

\* Test_SendRunnables on a database that Saves have filled.
NextTest ==
    \/ SaverCall(1, SaveOps, SaverPaths, Payloads)
    \/ DiscUpdateBegin(1)
    \/ DiscTxBody(1)
    \/ DiscCommit(1)
    \/ \E p \in SaverPaths : TestStart(1, p)
    \/ SendScan(1)
    \/ SendOffer(1)
    \/ TestSendResume(1)
    \/ SendDone(1)
    \/ TestReceive(1)
    \/ TestDone(1)

\* The test opens a database file of its own.
InitTest == InitSaver /\ backend = "disc"

SpecTest == InitTest /\ [][NextTest]_vars

\* One execution in time whose Drain calls callbacks as long as its
\* deadline allows.
NextDrain ==
    \/ Tick
    \/ \E delay \in Delays : setTimeout(delay)
    \/ \E arg \in Delays : setInterval(arg)
    \/ \E id \in 1..MaxTimers : clearTimer(id)
    \/ FetchCall
    \/ FetchWait
    \/ FetchReturn
    \/ ScriptEnd
    \/ WaitDrain
    \/ WaitEnd
    \/ DrainCall
    \/ CallbackEnd
    \/ DrainReturn

\* Drain goes on while it can, every callback returns, and so does every
\* fetch a callback makes.
SpecDrain ==
    /\ InitRuns
    /\ [][NextDrain]_vars
    /\ WF_vars(DrainCall \/ DrainReturn)
    /\ SF_vars(CallbackEnd)
    /\ WF_vars(FetchReturn)

----------------------------------------------------------------------------
(* Claims about Javascript.Run *)

Started(e) == execs[e].state # "new"

\* C1: every Javascript.Run call has an isolate, a context and an event
\* loop of its own, and over any interleaving of executions every global an
\* execution reads and every timer callback its Drain calls was created by
\* that same execution.
C1_Isolation ==
    /\ \A e1, e2 \in Execs :
          (e1 # e2 /\ Started(e1) /\ Started(e2)) =>
              /\ execs[e1].iso # execs[e2].iso
              /\ execs[e1].ctx # execs[e2].ctx
              /\ execs[e1].el # execs[e2].el
    /\ \A obs \in seen \cup fired : obs[1] = obs[2]

\* Two executions have overlapped: while one still holds a global and a
\* pending timer, the other has read its own globals and fired its own
\* timer.
C1_Witness ==
    \E e1, e2 \in Execs :
        /\ e1 # e2
        /\ Live(e1)
        /\ globals[execs[e1].ctx] # {}
        /\ timers[execs[e1].el] # {}
        /\ execs[e2].state = "done"
        /\ <<e2, e2>> \in seen
        /\ <<e2, e2>> \in fired

----------------------------------------------------------------------------
(* Claims about the Saver layer *)

SaveReturned(i) == proc[i].pc = "ret" /\ proc[i].op \in SaveOps

GetReturned(i) == proc[i].pc = "ret" /\ proc[i].op = "GetRunnable"

\* C2: on every backend, a GetRunnable(p) that follows a Save of payload v
\* at p, with no other write to p in between, returns a runnable whose Type
\* is the saved kind and whose payload equals v.
C2_SaveThenGet ==
    \A i \in Procs :
        (GetReturned(i) /\ proc[i].err = "nil" /\ proc[i].expect # NoSave) =>
            /\ proc[i].got.Type = proc[i].expect.kind
            /\ PayloadOf(proc[i].got) = proc[i].expect.payload

\* C3: on the disk and in-memory backends, in a sequential history, a Save
\* to p returns with Overwrote = true exactly when an earlier write to p
\* has completed, and with Overwrote = false when p is fresh.
C3_OverwroteIffStored ==
    \A i \in Procs :
        (backend \in {"disc", "map"} /\ SaveReturned(i)) =>
            proc[i].overwrote = proc[i].wasStored

\* A second Save to the same path of the in-memory backend has returned
\* with Overwrote = true.
C3_Witness ==
    \E i \in Procs :
        /\ backend = "map"
        /\ SaveReturned(i)
        /\ proc[i].wasStored
        /\ proc[i].overwrote

\* C4: on the S3 backend a Save returns with Overwrote = true when an
\* object was already stored at the key and with Overwrote = false when
\* none was.
C4_S3OverwroteIffStored ==
    \A i \in Procs :
        (backend = "s3" /\ SaveReturned(i) /\ proc[i].err = "nil") =>
            proc[i].overwrote = proc[i].wasStored

\* C5: on the disk backend, of the Saves called concurrently on one fresh
\* path exactly one returns with Overwrote = false: at most one at any
\* time, and one as soon as the path is stored.
C5_DiscOneFresh ==
    backend = "disc" =>
        \A p \in AllPaths :
            /\ freshCount[p] <= 1
            /\ (Stored(p) /\ p \notin Store0) => freshCount[p] = 1
            /\ p \in Store0 => freshCount[p] = 0

\* Two overlapping Saves to the same fresh path of the disk backend have
\* both returned, one with Overwrote = false and one with Overwrote = true.
C5_Witness ==
    \E i, j \in Procs :
        /\ backend = "disc"
        /\ SaveReturned(i) /\ SaveReturned(j)
        /\ proc[i].path = proc[j].path
        /\ proc[i].fresh /\ proc[j].fresh
        /\ proc[i].conc /\ proc[j].conc
        /\ ~proc[i].overwrote /\ proc[j].overwrote

\* C6: on the in-memory and S3 backends, two concurrent Saves to the same
\* fresh path never both return with Overwrote = false.
C6_NeverBothFresh ==
    backend \in {"map", "s3"} => \A p \in AllPaths : freshCount[p] <= 1

----------------------------------------------------------------------------
(* Claims about Service.Put and Httpserver.handle *)

\* Service.Put has returned to Httpserver.put on goroutine i.
PutReturned(i) == proc[i].pc = "put_ret"

\* The response shows value v: the text of a text or a script in a send
\* instruction, a binary by its comment.
Shows(w, v) ==
    \E n \in 1..Len(w.out) :
        IF v.kind = "Binary"
        THEN w.out[n].lit = "// binary at http://localhost%s"
        ELSE w.out[n].lit = "xhr.send(%s);" /\ w.out[n].text = v.payload

\* C7: on the disk backend, under any interleaving of write requests, when
\* a Service.Put has replaced a runnable, the response to that Put shows
\* the replay instructions for the value it replaced.
C7_ReplacedIsShown ==
    \A i \in Procs :
        (backend = "disc" /\ PutReturned(i) /\ proc[i].wrote
            /\ proc[i].replaced # NoSave) =>
                Shows(proc[i].w, proc[i].replaced)

\* The characters c and d are the same letter.
SameLetter(c, d) ==
    \/ c = d
    \/ <<c, d>> \in {<<"D", "d">>, <<"U", "u">>, <<"M", "m">>, <<"P", "p">>,
                     <<"L", "l">>, <<"O", "o">>, <<"G", "g">>, <<"S", "s">>}

\* The last characters of path are those of suffix, in either case.
EndsIn(path, suffix) ==
    /\ Len(path) >= Len(suffix)
    /\ \A n \in 1..Len(suffix) :
          SameLetter(path[Len(path) - Len(suffix) + n], suffix[n])

\* What a Put to a reserved path returns and leaves alone.
Rejected(r) ==
    /\ EndsIn(r.path, DumpSuffix) => r.svcErr = "ErrPutToDump"
    /\ EndsIn(r.path, LogsSuffix) => r.svcErr = "ErrPutToLogs"
    /\ ~r.calledSaver
    /\ ~r.wrote
    /\ r.w = NewW

Reserved(path) == EndsIn(path, DumpSuffix) \/ EndsIn(path, LogsSuffix)

\* C8, as stated: a Service.Put on a path whose last five characters are
\* /dump or /logs in any case returns ErrPutToDump or ErrPutToLogs, calls
\* no Saver operation, writes nothing to the response and leaves the store
\* unchanged.
C8_ReservedRejected ==
    \A i \in Procs :
        (PutReturned(i) /\ Reserved(proc[i].path)) => Rejected(proc[i])

\* C8, amended: a Service.Put whose request body could be read, on a path
\* whose last five characters are /dump or /logs in any case, returns
\* ErrPutToDump or ErrPutToLogs, calls no Saver operation, writes nothing
\* to the response and leaves the store unchanged.
C8_ReservedRejectedWhenRead ==
    \A i \in Procs :
        (PutReturned(i) /\ proc[i].bodyOK /\ Reserved(proc[i].path)) =>
            Rejected(proc[i])

\* A Put of a readable body to /DuMP has returned ErrPutToDump.
C8_Witness ==
    \E i \in Procs :
        /\ PutReturned(i)
        /\ proc[i].bodyOK
        /\ proc[i].path = PathDump
        /\ proc[i].svcErr = "ErrPutToDump"

\* C9: with Locked set, every request that is let in and is not OPTIONS,
\* PUT included, reaches Service.Run, none reaches Service.Put, and the
\* store is what it was when the server started.
C9_LockedStoreFrozen ==
    locked =>
        /\ db = Db0
        /\ texts = Texts0
        /\ bucket = Bucket0
        /\ \A i \in Procs :
              /\ ~proc[i].reachedPut
              /\ ~proc[i].wrote
              /\ (proc[i].method \in {"PUT", "GET"} /\ proc[i].w.status # 403)
                    => proc[i].reachedRun

\* With Locked set, a PUT to a stored path was answered by Service.Run
\* with what is stored there.
C9_Witness ==
    \E i \in Procs :
        /\ locked
        /\ proc[i].pc = "done"
        /\ proc[i].method = "PUT"
        /\ proc[i].reachedRun
        /\ proc[i].w.status = 200
        /\ proc[i].w.out # <<>>

\* The host of a remote address: what stands before the port, without the
\* brackets put around an IPv6 address.
RECURSIVE UpTo(_, _)
UpTo(s, stop) ==
    IF s = <<>> THEN <<>>
    ELSE IF Head(s) = stop THEN <<>>
    ELSE <<Head(s)>> \o UpTo(Tail(s), stop)

HostOf(remote) ==
    IF remote # <<>> /\ Head(remote) = "[" THEN UpTo(Tail(remote), "]")
    ELSE UpTo(remote, ":")

Loopback(remote) ==
    HostOf(remote) \in {<<"localhost">>, <<"127.0.0.1">>, <<":", ":", "1">>}

\* C10: with NonLocal unset, a request whose remote address is not a
\* loopback address reaches neither Service.Put nor Service.Run and is
\* answered with status 403.
C10_NonLocalForbidden ==
    \A i \in Procs :
        (~nonLocal /\ proc[i].pc # "idle" /\ ~Loopback(proc[i].remote)) =>
            /\ ~proc[i].reachedPut
            /\ ~proc[i].reachedRun
            /\ proc[i].w.status = 403

----------------------------------------------------------------------------
(* Claims about Service.Run and the classification in Service.Put *)

\* Service.Run has returned to Httpserver.run on goroutine i, after reading
\* the path of a request that asks for no export.
RanPath(i) ==
    /\ proc[i].pc = "run_ret"
    /\ ~EndsIn(proc[i].path, DumpSuffix)
    /\ proc[i].err = "nil"

\* The response is the one write of payload v with status 200.
Answers(w, v) ==
    /\ w.status = 200
    /\ Len(w.out) = 1
    /\ w.out[1].text = v
    /\ w.out[1].lit = "%s"

\* C11: Service.Run on a path that does not end in /dump answers 400 with an
\* explanatory body when the store returned no runnable for the path or one
\* with an empty payload; otherwise it writes the stored bytes with status
\* 200 for Binary, the stored text verbatim with status 200 for Text, and
\* for Javascript it calls Interpreter.Run exactly once, with the stored
\* source, and returns the error of that call.
C11_RunByType ==
    \A i \in Procs :
        RanPath(i) =>
            LET r == proc[i]
                stored == r.got
            IN IF stored.Type = "" \/ PayloadOf(stored) = EmptyStr
               THEN /\ r.w.status = 400
                    /\ Len(r.w.out) = 1
                    /\ r.w.out[1].lit = "There is nothing at path: '%s'"
                    /\ r.w.out[1].arg = r.path
                    /\ r.runCalls = <<>>
                    /\ r.svcErr = "nil"
               ELSE CASE stored.Type = "Binary" ->
                           /\ Answers(r.w, stored.Binary)
                           /\ r.runCalls = <<>>
                           /\ r.svcErr = "nil"
                      [] stored.Type = "Text" ->
                           /\ Answers(r.w, stored.Text)
                           /\ r.runCalls = <<>>
                           /\ r.svcErr = "nil"
                      [] OTHER ->
                           /\ Len(r.runCalls) = 1
                           /\ r.runCalls[1].c = stored.Text
                           /\ r.svcErr = r.runCalls[1].err

\* A stored script was run once, and Run returned the error of the call.
C11_Witness ==
    \E i \in Procs :
        /\ RanPath(i)
        /\ proc[i].got.Type = "Javascript"
        /\ proc[i].got.Text # EmptyStr
        /\ Len(proc[i].runCalls) = 1
        /\ proc[i].svcErr # "nil"

\* The number of bytes of body b before its k-th run.
RECURSIVE BytesBefore(_, _)
BytesBefore(b, k) ==
    IF k <= 1 THEN 0
    ELSE BytesBefore(b, k - 1) + b[k - 1].n * ByteWidth(b[k - 1].ch)

\* Decoding the first 200 bytes of body b yields the invalid-rune marker:
\* among them is the marker itself, a byte that is no UTF-8, or the first
\* bytes of a character the 200th byte cuts.
MarkerInWindow(b) ==
    \E k \in 1..Len(b) :
        /\ BytesBefore(b, k) < ShortStrLen
        /\ \/ b[k].ch \in {"uFFFD", "xFF"}
           \/ /\ BytesBefore(b, k + 1) > ShortStrLen
              /\ (ShortStrLen - BytesBefore(b, k)) % ByteWidth(b[k].ch) # 0

\* Service.Put on goroutine i has classified the body and called a Save.
Classified(i) ==
    /\ proc[i].pc \in {"put_saved", "put_ret"}
    /\ proc[i].bodyOK
    /\ ~Reserved(proc[i].path)

\* C12: Service.Put classifies the body by a chain in which the first match
\* wins: Binary when the first 200 bytes contain the invalid-rune marker,
\* without a call of the interpreter; otherwise Javascript when
\* Interpreter.IsCode accepts the whole body; otherwise Text, the result's
\* Message being the text IsCode returned with the parse error.  The Save
\* operation of the chosen kind is called exactly once.
C12_ClassificationChain ==
    \A i \in Procs :
        Classified(i) =>
            LET r == proc[i]
            IN IF MarkerInWindow(r.body)
               THEN /\ r.input = "Binary"
                    /\ r.isCodeCalls = <<>>
                    /\ r.saves = <<"SaveBinary">>
               ELSE IF IsCode(r.body)
               THEN /\ r.input = "Javascript"
                    /\ r.isCodeCalls = <<r.body>>
                    /\ r.saves = <<"SaveCode">>
               ELSE /\ r.input = "Text"
                    /\ r.isCodeCalls = <<r.body>>
                    /\ r.message = IsCodeMessage(r.body)
                    /\ r.message.arg = CompileError(r.body)
                    /\ r.saves = <<"SaveText">>

\* Put has saved as Binary, without asking the interpreter, a body the
\* interpreter would accept: the marker comes from the cut at the 200th
\* byte.
C12_Witness ==
    \E i \in Procs :
        /\ Classified(i)
        /\ proc[i].pc = "put_ret"
        /\ proc[i].body = CutText
        /\ IsCode(proc[i].body)
        /\ proc[i].input = "Binary"
        /\ proc[i].isCodeCalls = <<>>
        /\ proc[i].saves = <<"SaveBinary">>

----------------------------------------------------------------------------
(* Claims about the export *)

\* Path starts with prefix.
StartsWith(path, prefix) ==
    /\ Len(path) >= Len(prefix)
    /\ \A n \in 1..Len(prefix) : path[n] = prefix[n]

\* The paths stored under prefix, by the history of the writes.
StoredUnder(prefix) == {p \in AllPaths : Stored(p) /\ StartsWith(p, prefix)}

\* Goroutine i serves an export.
Exporting(i) == proc[i].sendPc # "none"

\* C13: SendRunnables(prefix) sends on the runnables channel the stored
\* runnables whose path starts with prefix, each once and no other, and it
\* sends the completion signal once, after the last runnable and never
\* before: nothing it sends is stored elsewhere or sent twice, nothing is
\* sent after the signal, and a scan that returns nil has sent them all.
C13_SendsStoredUnderPrefix ==
    \A i \in Procs :
        Exporting(i) =>
            LET r == proc[i]
            IN /\ \A n \in 1..Len(r.sent) :
                     /\ r.sent[n].Path \in StoredUnder(r.pStr)
                     /\ r.sent[n].Type = hist[r.sent[n].Path].kind
                     /\ \A m \in 1..Len(r.sent) :
                           r.sent[m].Path = r.sent[n].Path => m = n
               /\ Len(r.doneAfter) <= 1
               /\ r.doneAfter # <<>> => r.doneAfter[1] = Len(r.sent)
               /\ (r.sendPc = "returned" /\ r.sendErr = "nil") =>
                     /\ {r.sent[n].Path : n \in 1..Len(r.sent)} = StoredUnder(r.pStr)
                     /\ Len(r.doneAfter) = 1

\* A scan under /a has returned: it sent the runnable at /a and the signal
\* after it, and left out the runnable stored at /dumps.
C13_Witness ==
    \E i \in Procs :
        /\ proc[i].sendPc = "returned"
        /\ proc[i].sendErr = "nil"
        /\ proc[i].pStr = PathA
        /\ Stored(PathDumps)
        /\ Len(proc[i].sent) = 1
        /\ proc[i].sent[1].Path = PathA
        /\ proc[i].doneAfter = <<1>>

\* dumpPath has returned on goroutine i.
Exported(i) == Exporting(i) /\ proc[i].pc \in {"run_ret", "done"}

\* C14: in Service.dumpPath, under every interleaving of the sending
\* goroutine and the receiving loop, every runnable the backend sends has
\* been rendered into the response when dumpPath returns; none is dropped
\* when the completion signal arrives.
C14_NothingDropped ==
    \A i \in Procs :
        Exported(i) => proc[i].rendered = proc[i].sent

\* An export of two runnables has returned with both rendered.
C14_Witness ==
    \E i \in Procs :
        /\ Exported(i)
        /\ Len(proc[i].sent) = 2
        /\ proc[i].rendered = proc[i].sent

\* The replay statements of the n-th runnable of an export.
Statements(run, n) ==
    IF run.Type = "Binary"
    THEN <<Chunk("// binary at http://localhost%s", run.Path, EmptyStr)>>
    ELSE <<Lit(IF n = 1 THEN "var xhr = new XMLHttpRequest();"
               ELSE "xhr = new XMLHttpRequest();"),
           Lit("xhr.withCredentials = true;"),
           Chunk("xhr.open(PUT, http://localhost%s);", run.Path, EmptyStr),
           Chunk("xhr.send(%s);", <<>>, run.Text)>>

RECURSIVE Export(_, _)
Export(runs, n) ==
    IF n > Len(runs) THEN <<>>
    ELSE Statements(runs[n], n) \o Export(runs, n + 1)

\* C15: an export response is the header line followed, for each streamed
\* runnable in arrival order, by its replay statements: for Text and
\* Javascript the creation of an XMLHttpRequest, with var for the first
\* runnable rendered and a plain assignment afterwards, withCredentials,
\* open of PUT at the path and send of the payload; for Binary one comment
\* line with its location and no payload.
C15_ExportFormat ==
    \A i \in Procs :
        Exported(i) =>
            proc[i].w.out =
                <<Lit("//Dumping creation instructions v0.2")>> \o Export(proc[i].sent, 1)

\* The string a JavaScript engine makes of the template literal that the
\* export puts around payload s, from run k on; esc says that an unpaired
\* backslash stands before run k.  A pair of backslashes is one backslash, an
\* unpaired one is dropped before a character of this alphabet, and at the
\* end of the payload it escapes the closing backquote, so that the
\* statement does not parse.
RECURSIVE TemplateFrom(_, _, _)
TemplateFrom(s, k, esc) ==
    IF k > Len(s) THEN [ok |-> ~esc, text |-> EmptyStr]
    ELSE IF s[k].ch = "\\"
    THEN LET rest == TemplateFrom(s, k + 1, s[k].n % 2 = 1)
             kept == IF s[k].n \div 2 = 0 THEN EmptyStr ELSE Str("\\", s[k].n \div 2)
         IN [ok |-> rest.ok, text |-> IF rest.ok THEN kept \o rest.text ELSE EmptyStr]
    ELSE LET rest == TemplateFrom(s, k + 1, FALSE)
         IN [ok |-> rest.ok, text |-> IF rest.ok THEN <<s[k]>> \o rest.text ELSE EmptyStr]

\* The body that the statement xhr.send of payload s sends when the export
\* is run as a script.
TemplateLiteral(s) == TemplateFrom(s, 1, FALSE)

\* C16: replaying the export of a store against an empty server, by issuing
\* each PUT the replay script describes, recreates every Text and Javascript
\* runnable at the same path with a payload identical to the original, for
\* every payload string: every send statement of an export sends the payload
\* it was rendered from.
C16_ReplayRecreates ==
    \A i \in Procs :
        Exported(i) =>
            \A n \in 1..Len(proc[i].w.out) :
                proc[i].w.out[n].lit = "xhr.send(%s);" =>
                    TemplateLiteral(proc[i].w.out[n].text) =
                        [ok |-> TRUE, text |-> proc[i].w.out[n].text]

----------------------------------------------------------------------------
(* Claims about the execution of a script *)

\* Run has returned nil on execution e.
RunReturned(e) == execs[e].state = "done" /\ execs[e].err = "nil"

\* The last chunk of the response of execution e is c.
EndsWith(e, c) ==
    /\ execs[e].w.out # <<>>
    /\ execs[e].w.out[Len(execs[e].w.out)] = c

\* C17: when a script finishes without fault, Run appends to the response
\* body the JSON encoding of the final value if it is structured, the
\* textual form of the final value if it is a string, a number, a boolean
\* or a big integer, for every value of those types, and nothing if it is
\* undefined.
C17_FinalValueWritten ==
    \A e \in Execs :
        RunReturned(e) =>
            LET v == execs[e].val
            IN /\ v.type = "object" =>
                     execs[e].wroteVal /\ EndsWith(e, MarshalJSON(v))
               /\ v.type \in {"string", "number", "boolean", "bigint"} =>
                     execs[e].wroteVal /\ EndsWith(e, String(v))
               /\ v.type = "undefined" => ~execs[e].wroteVal

\* C18: a script whose output is produced by response.send(x) for a
\* structured value x yields the same response body as a script that
\* returns x, namely the JSON encoding of x written once, and sets
\* Content-Type to application/json.
C18_SendLikeReturn ==
    \A e \in Execs :
        /\ RunReturned(e)
        /\ execs[e].lastWasSend
        /\ execs[e].fns = {}
        /\ Len(execs[e].sends) = 1
        /\ IsObject(execs[e].sends[1])
        => /\ execs[e].w.out = <<MarshalJSON(execs[e].sends[1])>>
           /\ <<"Content-Type", "application/json">> \in execs[e].header

\* The places of chunk c in the response of execution e.
Places(e, c) == {n \in 1..Len(execs[e].w.out) : execs[e].w.out[n] = c}

\* What the callback of timer id writes.
FnWrite(id) == String(Value("string", ToString(id)))

\* Timer id of execution e was called once, and what it wrote is in the
\* response, before the final value if Run wrote one.
FnRan(e, id) ==
    /\ execs[e].fnCalls[id] = 1
    /\ \E n \in Places(e, FnWrite(id)) :
          execs[e].wroteVal => n < Len(execs[e].w.out)

\* C19, as stated: if a script calls setTimeout(fn, 0) and fn writes to the
\* response, then when Run returns without fault fn has been invoked once
\* and its write is part of the response body, before the serialized
\* return value.
C19_TimerWriteInBody ==
    \A e \in Execs :
        RunReturned(e) => \A id \in execs[e].fns : FnRan(e, id)

\* C19, amended: the same of every such timer that the script has not
\* cleared, when the last Drain has not run into its deadline.
C19_TimerWriteInBodyInTime ==
    \A e \in Execs :
        (RunReturned(e) /\ ~execs[e].elapsed) =>
            \A id \in execs[e].fns \ execs[e].fnCleared : FnRan(e, id)

\* A script has set a timer with a writing callback and has returned a
\* value Run writes: the callback was called once in the last Drain, and
\* its write stands before the value.
C19_Witness ==
    \E e \in Execs :
        /\ RunReturned(e)
        /\ ~execs[e].elapsed
        /\ execs[e].fns = {1}
        /\ execs[e].fnCleared = {}
        /\ execs[e].val = Value("string", "s")
        /\ execs[e].w.out = <<FnWrite(1), String(Value("string", "s"))>>

\* C20: if the promise returned by a script is still pending when the
\* deadline of the execution elapses, Run returns a timeout error and
\* serializes no return value into the response.
C20_PendingTimesOut ==
    \A e \in Execs :
        (execs[e].timedOut /\ ~Live(e)) =>
            /\ execs[e].state = "done"
            /\ execs[e].err = "timeout"
            /\ ~execs[e].wroteVal

----------------------------------------------------------------------------
(* Claims about the answers to faults *)

\* The errors a Saver returns from a Save and from GetRunnable.
WriteErrors == {"error saving text to database", "failed to check if exists", "failed to put"}

ReadErrors == {"Unexpected error running service at path"}

InputErrors == {"ErrCannotReadPostPayload", "ErrPutToDump", "ErrPutToLogs"}

\* The body of the response of goroutine i holds the text of the error.
TellsError(i) ==
    \E n \in 1..Len(proc[i].w.out) : proc[i].w.out[n].arg = <<proc[i].svcErr>>

\* C26: a storage error during a write (a Save fails) and a storage error
\* during a read (GetRunnable fails) are both answered with a 5xx status
\* and generic text, while input faults (unreadable body, write to a
\* reserved path) are answered with a 4xx status and descriptive text.
C26_FaultStatus ==
    \A i \in Procs :
        proc[i].pc = "done" =>
            /\ proc[i].svcErr \in WriteErrors \cup ReadErrors =>
                  proc[i].w.status \in 500..599 /\ ~TellsError(i)
            /\ proc[i].svcErr \in InputErrors =>
                  proc[i].w.status \in 400..499 /\ TellsError(i)

----------------------------------------------------------------------------
(* Claims about the objects of an execution and the faults of a script *)

\* Run is over on execution e: it has returned or a panic has left it.
RunOver(e) == execs[e].state \in {"done", "panicked"}

\* C23: every isolate, context and timer set created by a Run call is
\* released by the time that call returns, on every exit path (normal
\* return, binding failure, script error, promise rejection, deadline
\* timeout): after any sequence of executions no isolate created by Run is
\* live.
C23_AllReleased ==
    \A e \in Execs :
        RunOver(e) => ~execs[e].isoLive /\ ~execs[e].ctxLive

\* The execution e met a fault: the script did not compile or threw, its
\* promise was pending at the deadline, or it called a method of the
\* response object with arguments that the method refuses.
Faulted(e) ==
    \/ execs[e].state = "done" /\ execs[e].err = "got an error running the script"
    \/ execs[e].timedOut /\ ~Live(e)
    \/ execs[e].call # NoCall /\ Panics(execs[e].call.method, execs[e].call.nargs)

\* C24: every failure during an execution (a compile error, an uncaught
\* script exception, a promise unsettled at the deadline, or a host binding
\* called with bad arguments) ends with Run returning an error value with
\* a readable cause; none ends in a Go panic.
C24_FaultsAreErrors ==
    \A e \in Execs :
        Faulted(e) => execs[e].state = "done" /\ execs[e].err # "nil"

\* C25: each of the response methods append, cookie, json, location,
\* redirect, send, sendStatus, set (called with one or with two arguments)
\* and status returns the response object itself.
C25_MethodsChain ==
    \A e \in Execs :
        /\ (execs[e].call # NoCall /\ execs[e].state # "panicked") =>
              execs[e].call.ret = ResObj
        /\ execs[e].lastWasSend => execs[e].last = ResObj

----------------------------------------------------------------------------
(* Claims about fetch *)

\* A call of fetch has returned.
FetchReturned == loop.input # "" /\ loop.pc # "fetch"

\* C21: every call of fetch that returns has returned a promise that is
\* settled: fulfilled with a response object when the request succeeded,
\* rejected with a message when an argument is missing, the arguments
\* cannot be read, the URL is malformed, the transport fails or the body
\* cannot be read; and the code that called fetch goes on.
C21_FetchSettles ==
    FetchReturned =>
        /\ loop.fetched.state \in {"fulfilled", "rejected"}
        /\ loop.fetched.state = "fulfilled" <=> loop.input = "ok"
        /\ loop.fetched.state = "fulfilled" => loop.fetched.value = "response"
        /\ loop.fetched.state = "rejected" => loop.fetched.value \notin {"", "response"}
        /\ loop.pc \in {"script", "callback", "drain", "wait", "done", "aborted"}

\* A callback of a timer has called fetch with a malformed URL and holds a
\* rejected promise.
C21_Witness ==
    /\ loop.pc = "callback"
    /\ loop.input = "badURL"
    /\ loop.fetched = Settled("rejected", "fetch: %s")

\* The addresses nothing answers at.
Unreachable == {"refused", "silent"}

\* C22: when the script awaits a fetch to an unreachable address, refused
\* or never answered, Run is never in fetch after the deadline of the
\* execution, and it returns an error.
C22_UnreachableFails ==
    /\ ~loop.late
    /\ (loop.pc = "done" /\ loop.awaited /\ loop.input \in Unreachable) => loop.err # "nil"

----------------------------------------------------------------------------
(* Claims about timers *)

\* The ids of the timers in the map.
Pending == {t.id : t \in loop.timers}

\* The step is a clearTimer with an id that no timer in the map has.
ClearsUnknown ==
    /\ loop'.lastClear # loop.lastClear
    /\ loop'.lastClear \notin Pending

\* C27: Drain never calls the callback of a timer after clearTimeout or
\* clearInterval was called with its id, whether the timer was due already
\* or not and whether the script or the callback of another timer cleared
\* it; and clearTimer with an id that no pending timer has leaves the
\* timers, the ids and the calls as they are.
C27_ClearedNeverFire ==
    /\ [](\A n \in 1..Len(calls) : ~calls[n].cleared)
    /\ [](loop.cleared \cap Pending = {})
    /\ [][ClearsUnknown =>
             /\ loop'.timers = loop.timers
             /\ loop'.nextID = loop.nextID
             /\ loop'.cleared = loop.cleared
             /\ calls' = calls]_vars

\* Run has returned; Drain called the callback of one timer while another
\* was due as well, and that other one was cleared later and never
\* called.
C27_Witness ==
    /\ loop.pc = "done"
    /\ Len(calls) = 1
    /\ calls[1].id \notin loop.cleared
    /\ loop.cleared # {}
    /\ \E d \in calls[1].others : d <= calls[1].at

\* C28: the timer of each callback that Drain calls had, when Drain chose
\* it, a deadline no later than that of every other timer in the map; so
\* of two timeouts pending together the one called first has the deadline
\* that is not the later one.
C28_EarliestFirst ==
    /\ \A n \in 1..Len(calls) : \A d \in calls[n].others : calls[n].due <= d
    /\ \A m, n \in 1..Len(calls) :
          (/\ m < n
           /\ calls[m].id # calls[n].id
           /\ calls[n].interval = 0
           /\ calls[n].due \in calls[m].others) => calls[m].due <= calls[n].due

\* Drain has called two timers that were pending together with different
\* deadlines.
C28_Witness ==
    /\ Len(calls) = 2
    /\ calls[1].id # calls[2].id
    /\ calls[2].due \in calls[1].others
    /\ calls[1].due < calls[2].due

\* C29: the callback of a setTimeout timer is called at most once and the
\* timer is not in the map afterwards; a setInterval timer that was not
\* cleared is in the map after each of its calls.
C29_TimeoutOnceIntervalStays ==
    /\ \A m, n \in 1..Len(calls) :
          (m < n /\ calls[m].id = calls[n].id) => calls[m].interval > 0
    /\ \A n \in 1..Len(calls) :
          /\ calls[n].interval = 0 => calls[n].id \notin Pending
          /\ (calls[n].interval > 0 /\ calls[n].id \notin loop.cleared) =>
                calls[n].id \in Pending

\* Drain has called a timeout and an interval; the callbacks have returned,
\* the timeout is gone and the interval is pending.
C29_Witness ==
    /\ loop.pc \in {"drain", "done"}
    /\ Len(calls) = 2
    /\ calls[1].interval = 0
    /\ calls[2].interval > 0
    /\ Pending = {calls[2].id}

\* C30: Drain calls no callback before the deadline of its timer, and two
\* calls of the same interval timer that follow each other are at least
\* the interval apart, whatever time the callbacks in between took.
C30_NotBeforeDeadline ==
    /\ \A n \in 1..Len(calls) : calls[n].at >= calls[n].due
    /\ \A m, n \in 1..Len(calls) :
          (m < n /\ calls[m].id = calls[n].id) =>
              calls[n].at - calls[m].at >= calls[n].interval

\* Drain slept until an interval timer was due, called it, the callback
\* took time, and Drain called it again.
C30_Witness ==
    /\ Len(calls) = 2
    /\ calls[1].id = calls[2].id
    /\ calls[1].due > 0
    /\ calls[2].at > calls[2].due

----------------------------------------------------------------------------
(* Claims about the deadlines of Drain and of Run *)

\* Run is in Drain: between two callbacks, in a callback, or in a fetch
\* that a callback made.
InDrain ==
    \/ loop.pc \in {"drain", "callback"}
    \/ loop.pc = "fetch" /\ loop.back = "callback"

C32_OneDeadline ==
    loop.waitDeadline >= 0 =>
        \A n \in 1..Len(calls) : calls[n].at <= loop.waitDeadline

----------------------------------------------------------------------------
(* Claims about the value of a promise *)

\* What Run writes for the value v, if it writes anything.
Serialized(v) == IF IsObject(v) THEN MarshalJSON(v) ELSE String(v)

\* The promise of execution e was settled before the wait for it ran out.
SettledInTime(e) == execs[e].promise \in {"fulfilled", "rejected"} /\ ~execs[e].timedOut

\* C33: when the promise a script returned is fulfilled before the
\* deadline, the final value of Run is the value the promise was fulfilled
\* with, never the promise, and what Run writes for it is written from
\* that value; when the promise is rejected before the deadline, Run
\* returns the error of a rejected promise and writes no final value.
C33_PromiseResult ==
    \A e \in Execs :
        /\ (RunReturned(e) /\ SettledInTime(e) /\ execs[e].promise = "fulfilled") =>
              /\ execs[e].val = execs[e].result
              /\ ~IsPromise(execs[e].val)
              /\ execs[e].wroteVal = WritesValue(execs[e].result)
              /\ execs[e].wroteVal => EndsWith(e, Serialized(execs[e].result))
        /\ (execs[e].state = "done" /\ SettledInTime(e) /\ execs[e].promise = "rejected") =>
              /\ execs[e].err = "script promise rejected"
              /\ ~execs[e].wroteVal

\* A script returned a pending promise, the callback of a timer fulfilled
\* it with an object during the wait, and Run wrote that object.
C33_Witness ==
    \E e \in Execs :
        /\ RunReturned(e)
        /\ execs[e].promise = "fulfilled"
        /\ execs[e].result = Value("object", "x")
        /\ \E c \in Execs : <<e, c>> \in fired
        /\ EndsWith(e, MarshalJSON(Value("object", "x")))

----------------------------------------------------------------------------
(* Claims about response.redirect *)

\* The script of execution e has called response.redirect with nargs
\* arguments, and the call has returned.
Redirected(e, nargs) ==
    /\ execs[e].state = "script"
    /\ execs[e].call.method = "redirect"
    /\ execs[e].call.nargs = nargs

\* C34: response.redirect(target) sends the status 302 and
\* response.redirect(status, target) the status given; either call writes
\* the target to the body once and writes nothing else.
C34_RedirectWritesTarget ==
    \A e \in Execs :
        /\ Redirected(e, 1) =>
              /\ execs[e].w.status = 302
              /\ execs[e].w.out = <<String(Value("string", "v"))>>
        /\ Redirected(e, 2) =>
              /\ execs[e].w.status = 201
              /\ execs[e].w.out = <<String(Value("string", "v"))>>

----------------------------------------------------------------------------
(* Claims about the answer to a write *)

\* The request of goroutine i was a write that Service.Put accepted, and
\* it is answered.
PutAnswered(i) ==
    /\ proc[i].pc = "done"
    /\ proc[i].reachedPut
    /\ proc[i].svcErr = "nil"

\* The last thing written to the response of goroutine i.
LastWritten(i) == proc[i].w.out[Len(proc[i].w.out)]

\* C35: every write that succeeds, one that replaces a stored runnable
\* included, is answered with the status 202 and a body whose end is
\* "Saved input of type: " and the kind.
C35_PutAccepted ==
    \A i \in Procs :
        PutAnswered(i) =>
            /\ proc[i].w.status = 202
            /\ proc[i].w.out # <<>>
            /\ LastWritten(i) = Chunk("Saved input of type: %s", <<proc[i].input>>, EmptyStr)

----------------------------------------------------------------------------
(* Claims about the channels of an export *)

\* C36: with a runnables channel of capacity 1 and a completion channel of
\* capacity 1, a consumer that selects over both and stops at the
\* completion signal has by then received every runnable stored under the
\* prefix, however producer and consumer are scheduled.
C36_TestReceivesAll ==
    \A i \in Procs :
        proc[i].pc = "test_end" =>
            /\ proc[i].received = proc[i].sent
            /\ \E runs \in SendRunnables(proc[i].pStr) : proc[i].received = runs

\* dumpPath is running on goroutine i.
InDump(i) == proc[i].pc \in {"dump_start", "dump_select", "dump_render"}

\* SendRunnables has been called for goroutine i and has not returned.
Sending(i) == proc[i].sendPc \in {"scan", "next", "blocked"}

\* C37: SendRunnables sends one completion signal on every way out, a
\* failure of the backend included, and no runnable after it; so dumpPath
\* always returns, and the goroutine it started has finished by then.
C37_OneSignalAndReturn ==
    /\ [](\A i \in Procs :
            /\ Sending(i) => proc[i].doneAfter = <<>>
            /\ proc[i].sendPc = "returned" => proc[i].doneAfter = <<Len(proc[i].sent)>>)
    /\ \A i \in Procs : InDump(i) ~> (~InDump(i) /\ proc[i].sendPc = "returned")

\* The listing of the bucket failed after a runnable was sent; dumpPath
\* has rendered the runnable and returned.
C37_Witness ==
    \E i \in Procs :
        /\ proc[i].pc = "run_ret"
        /\ proc[i].sendErr # "nil"
        /\ proc[i].sent # <<>>
        /\ proc[i].rendered = proc[i].sent

\* dumpPath has returned on goroutine i after SendRunnables returned an
\* error.
DumpFailed(i) ==
    /\ proc[i].pc = "run_ret"
    /\ RunIsDump(proc[i].path)
    /\ proc[i].sendErr # "nil"

\* C38: when the scan of the backend fails during an export, dumpPath
\* sees the error that SendRunnables returned, whatever the order of the
\* producer goroutine and the test of the error: it logs it and writes no
\* export to the response.
C38_ScanErrorSeen ==
    \A i \in Procs : DumpFailed(i) => proc[i].w.out = <<>>

----------------------------------------------------------------------------
(* Claims about what a write leaves to run *)

\* The response of goroutine i is the 400 of Service.Run for a path that
\* holds nothing.
NothingThere(i) ==
    /\ proc[i].w.status = 400
    /\ \E n \in 1..Len(proc[i].w.out) :
          proc[i].w.out[n].lit = "There is nothing at path: '%s'"

\* C39: once a Service.Put on a path has succeeded, with any body that was
\* accepted, the empty one included, a Service.Run on that path does not
\* answer that there is nothing at the path.
C39_PutThenRun ==
    \A i \in Procs :
        (RanPath(i) /\ Stored(proc[i].path)) => ~NothingThere(i)

----------------------------------------------------------------------------
(* Claims about bodies of valid UTF-8 *)

\* Every byte of b belongs to a complete UTF-8 character.
ValidUTF8(b) == \A k \in 1..Len(b) : b[k].ch # "xFF"

\* b holds the character U+FFFD.
HasReplacementChar(b) == \E k \in 1..Len(b) : b[k].ch = "uFFFD"

\* C40: a body that is valid UTF-8 throughout and holds no U+FFFD is never
\* classified as Binary, whatever its length and wherever its characters
\* of several bytes lie relative to the 200 bytes that Put inspects.
C40_ValidTextNotBinary ==
    \A i \in Procs :
        (Classified(i) /\ ValidUTF8(proc[i].body)
                       /\ ~HasReplacementChar(proc[i].body))
            => proc[i].input # "Binary"

====
